---- MODULE Spec2Model ----
(***************************************************************************)
(* Model of the short-url-service core: the short URL manager              *)
(* (pkg/shorturl/manager.go) over its Storage (internal/storage) and Cache *)
(* (internal/cache) collaborators.                                         *)
(***************************************************************************)
EXTENDS Integers, Sequences, FiniteSets, Bags, TLC

(***************************************************************************)
(* Bounds of the model.                                                    *)
(***************************************************************************)

\* Config.MaxShortURLIdRetries: any value > 0 passes Config.Validate.
MaxShortURLIdRetries == 2

\* Goroutines spawned by GetLongURL that are pending at once: a GetLongURL
\* about to spawn one more waits for one of them to run.
MaxFills == 1

\* the RecordShortURLRequest calls of a run
MaxRecords == 3

(***************************************************************************)
(* Program constants.                                                      *)
(***************************************************************************)

charset ==
  << "0","1","2","3","4","5","6","7","8","9",
     "a","b","c","d","e","f","g","h","i","j","k","l","m",
     "n","o","p","q","r","s","t","u","v","w","x","y","z",
     "A","B","C","D","E","F","G","H","I","J","K","L","M",
     "N","O","P","Q","R","S","T","U","V","W","X","Y","Z" >>

base == Len(charset)

shortURLIdLength == 6

ShortURLCacheTTLInSeconds == 60

ErrShortURLNotFound == "short URL not found"
ErrShortURLExists == "short URL already exists"
ErrInvalidLongURL == "invalid long URL"

(***************************************************************************)
(* uint64 arithmetic.  A uint64 is a sequence of 8 limbs in 0..255, least  *)
(* significant first, so that every operation wraps at 2^64 as Go's does.  *)
(***************************************************************************)

Limb == 256

NLimbs == 8

\* a + b (mod 2^64)
RECURSIVE AddFrom(_, _, _, _)
AddFrom(a, b, i, carry) ==
  IF i > NLimbs THEN << >>
  ELSE << (a[i] + b[i] + carry) % Limb >>
         \o AddFrom(a, b, i + 1, (a[i] + b[i] + carry) \div Limb)

Add64(a, b) == AddFrom(a, b, 1, 0)

\* limb k (1-based) of the full product a * b before carries
RECURSIVE MulColumn(_, _, _, _)
MulColumn(a, b, k, i) ==
  IF i > k THEN 0 ELSE a[i] * b[k - i + 1] + MulColumn(a, b, k, i + 1)

\* a * b (mod 2^64)
RECURSIVE MulFrom(_, _, _, _)
MulFrom(a, b, k, carry) ==
  IF k > NLimbs THEN << >>
  ELSE << (MulColumn(a, b, k, 1) + carry) % Limb >>
         \o MulFrom(a, b, k + 1, (MulColumn(a, b, k, 1) + carry) \div Limb)

Mul64(a, b) == MulFrom(a, b, 1, 0)

\* bitwise exclusive or of two naturals
RECURSIVE BitXor(_, _)
BitXor(x, y) ==
  IF x = 0 THEN y
  ELSE IF y = 0 THEN x
  ELSE ((x + y) % 2) + 2 * BitXor(x \div 2, y \div 2)

\* a / d and a % d for a small divisor d: long division from the top limb.
\* Returns << quotient (uint64), remainder >>.
RECURSIVE DivFrom(_, _, _, _, _)
DivFrom(a, d, i, rem, q) ==
  IF i = 0 THEN << q, rem >>
  ELSE DivFrom(a, d, i - 1, (rem * Limb + a[i]) % d,
               << (rem * Limb + a[i]) \div d >> \o q)

DivMod64(a, d) == DivFrom(a, d, NLimbs, 0, << >>)

\* uint64(n) for a natural n below 2^31
RECURSIVE ToLimbs(_, _)
ToLimbs(n, i) ==
  IF i > NLimbs THEN << >> ELSE << n % Limb >> \o ToLimbs(n \div Limb, i + 1)

U64(n) == ToLimbs(n, 1)

(***************************************************************************)
(* hash/fnv New64a: FNV-1a, 64 bit.                                        *)
(***************************************************************************)

\* 0xcbf29ce484222325
fnvOffset64 == << 37, 35, 34, 132, 228, 156, 242, 203 >>

\* 0x00000100000001b3
fnvPrime64 == << 179, 1, 0, 0, 0, 1, 0, 0 >>

\* one round of Write: hash ^= byte, then hash *= prime64
FnvStep(h, byte) ==
  Mul64([ h EXCEPT ![1] = BitXor(h[1], byte) ], fnvPrime64)

\* Write, from the digest state d = [hash, n] (n bytes already written)
RECURSIVE FnvWrite(_, _)
FnvWrite(d, bytes) ==
  IF d.n = Len(bytes) THEN d.hash
  ELSE FnvWrite([ hash |-> FnvStep(d.hash, bytes[d.n + 1]), n |-> d.n + 1 ],
                bytes)

\* h := fnv.New64a(); h.Write(bytes); h.Sum64()
Sum64a(bytes) == FnvWrite([ hash |-> fnvOffset64, n |-> 0 ], bytes)

(***************************************************************************)
(* The long URLs of the model.  The first is the URL of the manager's      *)
(* tests; the second has the same six low base-62 digits of its hash, so   *)
(* it collides with the first at every offset.  The invalid ones fail      *)
(* validateLongURL.                                                        *)
(***************************************************************************)

ValidLongURLs == { "https://example.com", "https://akd39b5b" }

InvalidLongURLs == { "", "http://example.com" }

LongURLs == ValidLongURLs \cup InvalidLongURLs

\* []byte(s): the UTF-8 bytes of the strings the model uses
Bytes(s) ==
  CASE s = "" -> << >>
    [] s = "https://" ->
         << 104, 116, 116, 112, 115, 58, 47, 47 >>
    [] s = "https://example.com" ->
         << 104, 116, 116, 112, 115, 58, 47, 47, 101, 120, 97, 109, 112, 108, 101, 46, 99, 111, 109 >>
    [] s = "https://akd39b5b" ->
         << 104, 116, 116, 112, 115, 58, 47, 47, 97, 107, 100, 51, 57, 98, 53, 98 >>
    [] s = "http://example.com" ->
         << 104, 116, 116, 112, 58, 47, 47, 101, 120, 97, 109, 112, 108, 101, 46, 99, 111, 109 >>

\* strings.HasPrefix(s, prefix)
HasPrefix(s, prefix) ==
  /\ Len(Bytes(s)) >= Len(Bytes(prefix))
  /\ SubSeq(Bytes(s), 1, Len(Bytes(prefix))) = Bytes(prefix)

(***************************************************************************)
(* The short URL manager.  Each process is a caller (an HTTP request       *)
(* goroutine) that runs one manager call at a time; a call advances one    *)
(* Storage or Cache call per step, which is where calls interleave.        *)
(***************************************************************************)

Procs == { "p1", "p2" }

VARIABLES
  short_urls,   \* Storage: the short_urls table
  cacheEntries, \* Cache: the redis keys
  fills,        \* the goroutines spawned by GetLongURL that have not run yet
  pc,           \* per process: where its call stands ("idle": no call)
  arg,          \* per process: its call's argument
  loopOffset,   \* per process: the loop variable of GenerateShortURLId
  calls,        \* per process: the collaborator calls its call has made
  since,        \* history, per call in progress: for a GetLongURL, what deleted
                \* and live said of its id when it started and no step has
                \* undone; for a DeleteShortURL, that no insert followed its
                \* storage delete
  event,        \* what the last step returned to a caller (NoEvent: nothing)
  lastCreate,   \* history: the CreateShortURL that returned last, no step since
  deleted,      \* history: ids whose DeleteShortURL succeeded, not inserted since
  live,         \* history: per id, the long URL a successful CreateShortURL
                \* returned it for, no DeleteShortURL having run its Storage
                \* delete of the id since
  visitor,      \* per process: r.RemoteAddr of the redirect request whose
                \* handler made its call ("": the call is not a redirect's)
  mapped        \* history: the pairs << id, long URL >> that short_urls has
                \* held and that the cache or a pending goroutine has held
                \* ever since

shortURLVars ==
  << short_urls, cacheEntries, fills, pc, arg, loopOffset, calls, since, event,
     lastCreate, deleted, live, visitor, mapped >>

\* The metrics manager (pkg/metrics), its goroutines and its table.
VARIABLES
  collectors,        \* Manager.collectors: shortURLId -> Collector
  requestChan,       \* Manager.requestChan: the Requests buffered, oldest first
  stopChan,          \* Manager.stopChan: "open" or "closed"
  loop,              \* the goroutine of Start: "none" (Start not called),
                     \* "select" (at its select statement) or "exited"
  tickerC,           \* whether ticker.C holds a tick
  recording,         \* the RecordShortURLRequest calls at their select
  panicked,          \* the program has panicked
  short_url_metrics, \* Storage: the rows of the short_url_metrics table
  clock,             \* the last reading of time.Now()
  mevent,            \* what the last step of the metrics manager did
  window,            \* history: the Requests processed since the last flush
  tally              \* history: counts of calls, Requests and visits

metricsVars ==
  << collectors, requestChan, stopChan, loop, tickerC, recording, panicked,
     short_url_metrics, clock, mevent, window, tally >>

\* The callers of GenerateIdWithOffset other than GenerateShortURLId.
VARIABLES
  generated,         \* history: the calls of GenerateIdWithOffset made by
                     \* other callers (the first of each result, and the last)
  codec,             \* a hash value and an offset, and the identifier
                     \* GenerateIdWithOffset makes of them ("" before it has)
  candidates         \* a hash value and the identifiers GenerateIdWithOffset
                     \* has made of it at the offsets 0, 1, 2, ... so far

codecVars == << generated, codec, candidates >>

vars == << shortURLVars, metricsVars, codecVars >>

(***************************************************************************)
(* Manager.GenerateIdWithOffset                                            *)
(***************************************************************************)

\* a variant of QuadraticOffset without the linear term
QuadraticOffsetSquareOnly(offset) == DivMod64(Mul64(offset, offset), 2)[1]

\* quadraticOffset := (offset + (offset * offset)) / 2, offset a uint: the sum
\* and the product wrap at 2^64 before the division
QuadraticOffset(offset) ==
  DivMod64(Add64(offset, Mul64(offset, offset)), 2)[1]

\* the loop writing charset[hashValue%base] and dividing hashValue by base
RECURSIVE EncodeBase62(_, _)
EncodeBase62(hashValue, n) ==
  IF n = 0 THEN ""
  ELSE charset[DivMod64(hashValue, base)[2] + 1]
         \o EncodeBase62(DivMod64(hashValue, base)[1], n - 1)

\* the identifier of a hash value: probe added with wraparound, then encoded
IdOfHash(hashValue, offset) ==
  EncodeBase62(Add64(hashValue, QuadraticOffset(offset)), shortURLIdLength)

\* a variant of GenerateIdWithOffset that moves the offset by the number of
\* rows of short_urls
GenerateIdWithOffsetSalted(longURL, offset) ==
  IdOfHash(Sum64a(Bytes(longURL)),
           Add64(offset, U64(Cardinality(DOMAIN short_urls))))

GenerateIdWithOffset(longURL, offset) ==
  IdOfHash(Sum64a(Bytes(longURL)), offset)

\* GenerateIdWithOffset tabulated over the long URLs and offsets of the model
IdTable ==
  [ u \in ValidLongURLs |->
      [ o \in 0..(MaxShortURLIdRetries - 1) |->
          GenerateIdWithOffset(u, U64(o)) ] ]

\* every identifier a creation can examine
ShortURLIds ==
  { IdTable[u][o] : u \in ValidLongURLs, o \in 0..(MaxShortURLIdRetries - 1) }

(***************************************************************************)
(* Errors.  An error is its chain of messages, outermost first, so that    *)
(* fmt.Errorf("...: %w", err) prepends and errors.Is searches the chain;   *)
(* nil is the empty chain.                                                 *)
(***************************************************************************)

Nil == << >>

ErrNotFound == << ErrShortURLNotFound >>
ErrExists == << ErrShortURLExists >>
ErrInvalid == << ErrInvalidLongURL >>

\* what the collaborators' clients return
ErrDriver == << "driver: bad connection" >>
ErrDuplicateKey == << "duplicate key value violates unique constraint" >>
ErrRedis == << "redis: connection refused" >>
ErrContextCanceled == << "context canceled" >>

\* fmt.Errorf(msg + ": %w", err)
Wrap(msg, err) == << msg >> \o err

\* errors.Is(err, target)
ErrorsIs(err, target) ==
  \E k \in 1..Len(err) : SubSeq(err, k, Len(err)) = target

(***************************************************************************)
(* Storage: the short_urls table, id its primary key.  A table is the      *)
(* function from the ids of its rows to their long_url.  fault is the      *)
(* error of the driver for this call (Nil: the statement runs).            *)
(***************************************************************************)

\* a variant of StorageCreateShortURL whose INSERT replaces the row of its id
StorageCreateShortURLUpsert(table, id, longURL, fault) ==
  IF fault # Nil THEN [ table |-> table, err |-> fault ]
  ELSE [ table |-> [ k \in DOMAIN table \cup { id } |->
                       IF k = id THEN longURL ELSE table[k] ],
         err |-> Nil ]

\* INSERT INTO short_urls (id, long_url) VALUES ($1, $2)
StorageCreateShortURL(table, id, longURL, fault) ==
  IF fault # Nil THEN [ table |-> table, err |-> fault ]
  ELSE IF id \in DOMAIN table THEN [ table |-> table, err |-> ErrDuplicateKey ]
  ELSE [ table |-> (id :> longURL) @@ table, err |-> Nil ]

\* DELETE FROM short_urls WHERE id = $1
StorageDeleteShortURL(table, id, fault) ==
  IF fault # Nil THEN [ table |-> table, err |-> fault ]
  ELSE [ table |-> [ k \in DOMAIN table \ {id} |-> table[k] ], err |-> Nil ]

\* SELECT long_url FROM short_urls WHERE id = $1
StorageGetLongURL(table, id, fault) ==
  IF fault # Nil THEN [ longURL |-> "", found |-> FALSE, err |-> fault ]
  ELSE IF id \notin DOMAIN table
  THEN [ longURL |-> "", found |-> FALSE, err |-> Nil ]
  ELSE [ longURL |-> table[id], found |-> TRUE, err |-> Nil ]

(***************************************************************************)
(* Cache: redis keys "short_url:<key>" with their value and expiration.    *)
(***************************************************************************)

\* fmt.Sprintf(namespace, key)
Namespace(key) == "short_url:" \o key

CacheGet(entries, key, fault) ==
  IF fault # Nil THEN [ value |-> "", found |-> FALSE, err |-> fault ]
  ELSE IF Namespace(key) \notin DOMAIN entries
  THEN [ value |-> "", found |-> FALSE, err |-> Nil ]
  ELSE [ value |-> entries[Namespace(key)].value, found |-> TRUE, err |-> Nil ]

CacheSet(entries, key, value, duration, fault) ==
  IF fault # Nil THEN [ entries |-> entries, err |-> fault ]
  ELSE [ entries |->
           [ k \in DOMAIN entries \cup {Namespace(key)} |->
               IF k = Namespace(key)
               THEN [ value |-> value, ttl |-> duration ]
               ELSE entries[k] ],
         err |-> Nil ]

CacheDelete(entries, key, fault) ==
  IF fault # Nil THEN [ entries |-> entries, err |-> fault ]
  ELSE [ entries |->
           [ k \in DOMAIN entries \ {Namespace(key)} |-> entries[k] ],
         err |-> Nil ]

\* the pairs << id, long URL >> of the rows of table
Rows(table) == { << id, table[id] >> : id \in DOMAIN table }

\* the cache entries or the goroutines fs hold the long URL of pair for its id
Held(pair, entries, fs) ==
  \/ /\ Namespace(pair[1]) \in DOMAIN entries
     /\ entries[Namespace(pair[1])].value = pair[2]
  \/ \E f \in BagToSet(fs) : f.key = pair[1] /\ f.value = pair[2]

\* mapped after a step: what short_urls holds before or after the step joins
\* it, what neither the cache nor a goroutine holds after the step leaves it
MappedAfter ==
  mapped' = { pair \in mapped \cup Rows(short_urls) \cup Rows(short_urls') :
                Held(pair, cacheEntries', fills') }

NoSince == [ deleted |-> FALSE, live |-> "" ]
NoCreate == [ proc |-> "", longURL |-> "", val |-> "", err |-> Nil ]
NoEvent ==
  [ proc |-> "", op |-> "", arg |-> "", val |-> "", err |-> Nil, calls |-> << >>,
    since |-> NoSince, prev |-> NoCreate, status |-> 0, visitor |-> "",
    recorded |-> << >> ]

\* a variant of WithoutCancel that hands the goroutine the caller's context
WithCallerContext(ctx) == ctx

\* context.WithoutCancel(ctx): a context that is never cancelled
WithoutCancel(ctx) == "background"

\* ctx.Err() != nil.  The context of a call is its request's, named by the
\* process: net/http cancels it when the handler has returned.
CtxErr(ctx) == ctx \in Procs /\ pc[ctx] = "idle"

\* the errors a client can return to a call under ctx: a cancelled context
\* fails the call; otherwise the call runs, or fails with connErr (a lost
\* connection, a timeout, a cancellation while the call is in flight)
Faults(ctx, connErr) ==
  IF CtxErr(ctx) THEN { ErrContextCanceled } ELSE { Nil, connErr }

\* a variant of CacheTTL that passes no expiration: the key is kept until it
\* is deleted
CacheTTLNone == 0 * ShortURLCacheTTLInSeconds

\* time.Duration(m.config.ShortURLCacheTTLInSeconds) * time.Second, in seconds
CacheTTL == ShortURLCacheTTLInSeconds

\* a variant of validateLongURL that also rejects long URLs of more than 16
\* bytes
validateLongURLLengthLimit(longURL) ==
  IF longURL = "" THEN << "long URL cannot be empty" >>
  ELSE IF ~HasPrefix(longURL, "https://") \/ Len(Bytes(longURL)) > 16
  THEN << "long URLs must start with https://" >>
  ELSE Nil

validateLongURL(longURL) ==
  IF longURL = "" THEN << "long URL cannot be empty" >>
  ELSE IF ~HasPrefix(longURL, "https://")
  THEN << "long URLs must start with https://" >>
  ELSE Nil

NoMetricsEvent == [ op |-> "" ]

\* the metrics manager after NewManager
MetricsInit ==
  /\ collectors = << >>
  /\ requestChan = << >>
  /\ stopChan = "open"
  /\ loop = "none"
  /\ tickerC = FALSE
  /\ recording = EmptyBag
  /\ panicked = FALSE
  /\ short_url_metrics = EmptyBag
  /\ clock = 0
  /\ mevent = NoMetricsEvent
  /\ window = EmptyBag
  /\ tally = [ records |-> 0, enqueued |-> 0, enqueuedBeforeStop |-> 0,
               processed |-> 0, submitted |-> 0, stops |-> 0,
               terminalFlushes |-> 0 ]

\* no call of GenerateIdWithOffset by another caller
NoGenerated == [ longURL |-> "", offset |-> 0, id |-> "", rows |-> 0 ]

\* the short URL manager after NewManager
ShortURLInit ==
  /\ short_urls = << >>
  /\ cacheEntries = << >>
  /\ fills = EmptyBag
  /\ pc = [ p \in Procs |-> "idle" ]
  /\ arg = [ p \in Procs |-> "" ]
  /\ loopOffset = [ p \in Procs |-> 0 ]
  /\ calls = [ p \in Procs |-> << >> ]
  /\ since = [ p \in Procs |-> NoSince ]
  /\ event = NoEvent
  /\ lastCreate = NoCreate
  /\ deleted = {}
  /\ live = [ id \in ShortURLIds |-> "" ]
  /\ visitor = [ p \in Procs |-> "" ]
  /\ mapped = {}
  /\ generated = [ calls |-> {}, last |-> NoGenerated ]

\* no hash value has been drawn
NoCodec == [ hashValue |-> U64(0), offset |-> U64(0), id |-> "" ]

\* no hash value has been probed
NoCandidates == [ hashValue |-> U64(0), ids |-> << >> ]

Init ==
  /\ MetricsInit
  /\ ShortURLInit
  /\ codec = NoCodec
  /\ candidates = NoCandidates

\* A request is served by the first caller that is free: callers are
\* interchangeable, so this leaves out only renamings of the same run.
Free(p) ==
  /\ pc[p] = "idle"
  /\ \A q \in Procs : (q = "p1" /\ p # "p1") => pc[q] # "idle"

\* since, after a step that inserted the ids ins into short_urls and ran the
\* Storage delete of the ids del
SinceAfter(ins, del) ==
  [ q \in Procs |->
      [ deleted |-> since[q].deleted /\ arg[q] \notin ins,
        live |-> IF arg[q] \in del THEN "" ELSE since[q].live ] ]

\* p's call (of method, with argument a, made for the visitor ip) goes on at
\* label, having made the collaborator calls cs
GotoFor(p, ip, method, a, label, off, cs, snap, ins, del) ==
  /\ pc' = [ pc EXCEPT ![p] = label ]
  /\ visitor' = [ visitor EXCEPT ![p] = ip ]
  /\ arg' = [ arg EXCEPT ![p] = a ]
  /\ loopOffset' = [ loopOffset EXCEPT ![p] = off ]
  /\ calls' = [ calls EXCEPT ![p] = cs ]
  /\ since' = [ SinceAfter(ins, del) EXCEPT ![p] = snap ]
  /\ event' = NoEvent
  /\ lastCreate' = IF method = "CreateShortURL" /\ lastCreate.proc = p
                   THEN lastCreate ELSE NoCreate
  /\ UNCHANGED << metricsVars, codecVars >>

\* a call in progress goes on
Goto(p, method, a, label, off, cs, snap, ins, del) ==
  GotoFor(p, visitor[p], method, a, label, off, cs, snap, ins, del)

\* net/http's status codes
StatusOK == 200
StatusCreated == 201
StatusFound == 302
StatusNotFound == 404
StatusInternalServerError == 500

\* ShortURLHandler.CreateShortURL: the status it answers with when
\* h.shortURLManager.CreateShortURL has returned err
CreateShortURLStatus(err) ==
  IF err # Nil THEN StatusInternalServerError ELSE StatusCreated

\* ShortURLHandler.DeleteShortURL, when h.shortURLManager.DeleteShortURL has
\* returned err
DeleteShortURLStatus(err) ==
  IF err # Nil THEN StatusInternalServerError ELSE StatusOK

\* ShortURLHandler.RedirectToLongURL, when h.shortURLManager.GetLongURL has
\* returned err
RedirectToLongURLStatus(err) ==
  IF err # Nil
  THEN IF ErrorsIs(err, ErrNotFound) THEN StatusNotFound
       ELSE StatusInternalServerError
  ELSE StatusFound

\* the status the handler that called method answers with
HandlerStatus(method, err) ==
  CASE method = "CreateShortURL" -> CreateShortURLStatus(err)
    [] method = "GetLongURL" -> RedirectToLongURLStatus(err)
    [] method = "DeleteShortURL" -> DeleteShortURLStatus(err)

\* a variant of RedirectToLongURLRecords that records the visit of every
\* request
RedirectToLongURLRecordsAlways(err) == TRUE

\* ShortURLHandler.RedirectToLongURL, when h.shortURLManager.GetLongURL has
\* returned err: whether it reaches h.metricsManager.RecordShortURLRequestAsync
RedirectToLongURLRecords(err) == err = Nil

\* the Requests the handler of ip's request passes to
\* RecordShortURLRequestAsync when its call of method with argument a has
\* returned err
HandlerRecords(ip, method, a, err) ==
  IF ip # "" /\ method = "GetLongURL" /\ RedirectToLongURLRecords(err)
  THEN << [ ShortURLId |-> a, VisitorId |-> ip ] >>
  ELSE << >>

\* RecordShortURLRequestAsync for each of the Requests rs: go
\* m.RecordShortURLRequest, the goroutine at its select when the handler goes on
RecordShortURLRequestAsync(rs) ==
  IF rs = << >> THEN UNCHANGED metricsVars
  ELSE /\ recording' = recording (+)
            SetToBag({ [ request |-> rs[1], afterExit |-> loop = "exited" ] })
       /\ tally' = [ tally EXCEPT !.records = @ + 1 ]
       /\ mevent' = NoMetricsEvent
       /\ UNCHANGED << collectors, requestChan, stopChan, loop, tickerC,
                       panicked, short_url_metrics, clock, window >>

\* p's call (of method, with argument a, made for the visitor ip) returns
\* (val, err), having made the collaborator calls cs, and the handler that
\* made it answers
ReturnFor(p, ip, method, a, val, err, cs, snap, ins, del) ==
  /\ pc' = [ pc EXCEPT ![p] = "idle" ]
  /\ visitor' = [ visitor EXCEPT ![p] = "" ]
  /\ arg' = [ arg EXCEPT ![p] = "" ]
  /\ loopOffset' = [ loopOffset EXCEPT ![p] = 0 ]
  /\ calls' = [ calls EXCEPT ![p] = << >> ]
  /\ since' = [ SinceAfter(ins, del) EXCEPT ![p] = NoSince ]
  /\ event' = [ proc |-> p, op |-> method, arg |-> a, val |-> val, err |-> err,
                calls |-> cs, since |-> snap,
                prev |-> IF method = "CreateShortURL" /\ lastCreate.proc = p
                         THEN lastCreate ELSE NoCreate,
                status |-> HandlerStatus(method, err), visitor |-> ip,
                recorded |-> HandlerRecords(ip, method, a, err) ]
  /\ lastCreate' = IF method = "CreateShortURL"
                   THEN [ proc |-> p, longURL |-> a, val |-> val, err |-> err ]
                   ELSE NoCreate
  /\ RecordShortURLRequestAsync(HandlerRecords(ip, method, a, err))
  /\ UNCHANGED codecVars

\* a call in progress returns
Return(p, method, a, val, err, cs, snap, ins, del) ==
  ReturnFor(p, visitor[p], method, a, val, err, cs, snap, ins, del)

(***************************************************************************)
(* Manager.GetLongURL                                                      *)
(***************************************************************************)

\* a variant of CacheFill that sets the id as the value of its key
CacheFillOfId(ctx, shortURLId, longURL) ==
  [ ctx |-> WithoutCancel(ctx), key |-> shortURLId, value |-> shortURLId,
    ttl |-> CacheTTL ]

\* the goroutine of lines 92-96
CacheFill(ctx, shortURLId, longURL) ==
  [ ctx |-> WithoutCancel(ctx), key |-> shortURLId, value |-> longURL,
    ttl |-> CacheTTL ]

\* a variant of GetLongURLAfterCache that reads the Store even on a cache hit
GetLongURLAfterCacheBypass(r) == [ done |-> FALSE, val |-> "", err |-> Nil ]

\* a variant of GetLongURLAfterCache that returns the cache's error
GetLongURLAfterCacheStrict(r) ==
  IF r.err # Nil
  THEN [ done |-> TRUE, val |-> "",
         err |-> << "failed to get long URL from cache" >> \o r.err ]
  ELSE IF r.found THEN [ done |-> TRUE, val |-> r.value, err |-> Nil ]
  ELSE [ done |-> FALSE, val |-> "", err |-> Nil ]

\* what GetLongURL returns after the cache lookup r, or that it goes on
GetLongURLAfterCache(r) ==
  IF r.found THEN [ done |-> TRUE, val |-> r.value, err |-> Nil ]
  ELSE [ done |-> FALSE, val |-> "", err |-> Nil ]

\* a variant of GetLongURLAfterStorage that returns an absent row as an empty
\* long URL
GetLongURLAfterStorageLenient(r) ==
  IF r.err # Nil
  THEN [ val |-> "", fill |-> FALSE,
         err |-> << "failed to get long URL from storage" >> \o r.err ]
  ELSE IF ~r.found THEN [ val |-> "", err |-> Nil, fill |-> FALSE ]
  ELSE [ val |-> r.longURL, err |-> Nil, fill |-> TRUE ]

\* a variant of GetLongURLAfterStorage that has the cache remember an absent
\* row
GetLongURLAfterStorageNegativeCaching(r) ==
  IF r.err # Nil
  THEN [ val |-> "", err |-> Wrap("failed to get long URL from storage", r.err),
         fill |-> FALSE ]
  ELSE IF ~r.found THEN [ val |-> "", err |-> ErrNotFound, fill |-> TRUE ]
  ELSE [ val |-> r.longURL, err |-> Nil, fill |-> TRUE ]

\* what GetLongURL returns after the storage lookup r, and whether it spawns
\* the goroutine
GetLongURLAfterStorage(r) ==
  IF r.err # Nil
  THEN [ val |-> "", err |-> Wrap("failed to get long URL from storage", r.err),
         fill |-> FALSE ]
  ELSE IF ~r.found THEN [ val |-> "", err |-> ErrNotFound, fill |-> FALSE ]
  ELSE [ val |-> r.longURL, err |-> Nil, fill |-> TRUE ]

\* lines 72-78: entry and m.cache.Get, the call made for the visitor ip
GetLongURLFor(p, ip, shortURLId, fault) ==
  /\ Free(p)
  /\ LET r    == CacheGet(cacheEntries, shortURLId, fault)
         cs   == << [ fn |-> "cache.Get", key |-> shortURLId, out |-> r ] >>
         a    == GetLongURLAfterCache(r)
         snap == [ deleted |-> shortURLId \in deleted, live |-> live[shortURLId] ]
     IN  IF a.done
         THEN ReturnFor(p, ip, "GetLongURL", shortURLId, a.val, a.err, cs, snap,
                        {}, {})
         ELSE GotoFor(p, ip, "GetLongURL", shortURLId, "GetLongURL:storage", 0, cs,
                      snap, {}, {})
  /\ UNCHANGED << short_urls, cacheEntries, fills, deleted, live >>
  /\ MappedAfter

\* Manager.GetLongURL called by another caller than the redirect handler
GetLongURL(p, shortURLId, fault) == GetLongURLFor(p, "", shortURLId, fault)

\* the redirects of a run that have recorded a visit or may still
RedirectsCounted ==
  tally.records + Cardinality({ q \in Procs : visitor[q] # "" })

\* ShortURLHandler.RedirectToLongURL for a request of ip, to the first
\* collaborator call of h.shortURLManager.GetLongURL
RedirectToLongURL(p, shortURLId, ip, fault) ==
  /\ ~panicked
  /\ RedirectsCounted < MaxRecords
  /\ GetLongURLFor(p, ip, shortURLId, fault)

\* lines 80-98: m.storage.GetLongURL, the go statement and the return
GetLongURLStorage(p, fault) ==
  /\ pc[p] = "GetLongURL:storage"
  /\ LET r == StorageGetLongURL(short_urls, arg[p], fault)
         a == GetLongURLAfterStorage(r)
         f == CacheFill(p, arg[p], r.longURL)
         c == [ fn |-> "storage.GetLongURL", key |-> arg[p], out |-> r ]
         g == [ fn |-> "go cache.Set", key |-> f.key, out |-> f ]
     IN  /\ a.fill => BagCardinality(fills) < MaxFills
         /\ fills' = IF a.fill THEN fills (+) SetToBag({f}) ELSE fills
         /\ Return(p, "GetLongURL", arg[p], a.val, a.err,
                   calls[p] \o << c >> \o (IF a.fill THEN << g >> ELSE << >>),
                   since[p], {}, {})
  /\ UNCHANGED << short_urls, cacheEntries, deleted, live >>
  /\ MappedAfter

\* the spawned goroutine runs: m.cache.Set, its error only logged
CacheSetGoroutine(f, fault) ==
  /\ BagIn(f, fills)
  /\ fills' = fills (-) SetToBag({f})
  /\ LET r == CacheSet(cacheEntries, f.key, f.value, f.ttl, fault)
     IN  /\ cacheEntries' = r.entries
         /\ event' = [ NoEvent EXCEPT !.op = "go cache.Set", !.arg = f.key,
                                      !.val = f.value, !.err = r.err ]
  /\ lastCreate' = NoCreate
  /\ UNCHANGED << short_urls, pc, arg, loopOffset, calls, since, deleted, live,
                  visitor >>
  /\ MappedAfter
  /\ UNCHANGED << metricsVars, codecVars >>

(***************************************************************************)
(* Manager.CreateShortURL and Manager.GenerateShortURLId                    *)
(***************************************************************************)

\* a variant of GenerateShortURLIdStep that takes any row found for the caller's
GenerateShortURLIdStepAnyRow(longURL, id, r) ==
  IF r.err # Nil
  THEN [ done |-> TRUE, id |-> "",
         err |-> << "error checking existing short URL" >> \o r.err ]
  ELSE IF ~r.found THEN [ done |-> TRUE, id |-> id, err |-> Nil ]
  ELSE [ done |-> TRUE, id |-> id, err |-> << ErrShortURLExists >> ]

\* a variant of GenerateShortURLIdStep that takes a slot holding another long
\* URL for a free one
GenerateShortURLIdStepNoSkip(longURL, id, r) ==
  IF r.err # Nil
  THEN [ done |-> TRUE, id |-> "",
         err |-> << "error checking existing short URL" >> \o r.err ]
  ELSE IF r.found /\ r.longURL = longURL
  THEN [ done |-> TRUE, id |-> id, err |-> << ErrShortURLExists >> ]
  ELSE [ done |-> TRUE, id |-> id, err |-> Nil ]

\* a variant of GenerateShortURLIdStep that goes on past a row of its own long
\* URL as past any other
GenerateShortURLIdStepNoMatch(longURL, id, r) ==
  IF r.err # Nil
  THEN [ done |-> TRUE, id |-> "",
         err |-> << "error checking existing short URL" >> \o r.err ]
  ELSE IF ~r.found THEN [ done |-> TRUE, id |-> id, err |-> Nil ]
  ELSE [ done |-> FALSE, id |-> "", err |-> Nil ]

\* One iteration of GenerateShortURLId's loop after the storage lookup r of
\* the candidate id: what the loop returns, or that it goes on (lines 176-190)
GenerateShortURLIdStep(longURL, id, r) ==
  IF r.err # Nil
  THEN [ done |-> TRUE, id |-> "",
         err |-> Wrap("error checking existing short URL", r.err) ]
  ELSE IF ~r.found THEN [ done |-> TRUE, id |-> id, err |-> Nil ]
  ELSE IF r.longURL = longURL THEN [ done |-> TRUE, id |-> id, err |-> ErrExists ]
  ELSE [ done |-> FALSE, id |-> "", err |-> Nil ]

ErrGenerationExhausted == << "failed to generate unique short URL" >>

\* a variant of GenerateShortURLIdAfterLoop that returns the last candidate
GenerateShortURLIdAfterLoopLast(id) == [ id |-> id, err |-> Nil ]

\* what GenerateShortURLId returns after the loop, id the last candidate
\* (lines 192-194)
GenerateShortURLIdAfterLoop(id) == [ id |-> "", err |-> ErrGenerationExhausted ]

\* a variant of CreateShortURLAfterGenerate that returns ErrShortURLExists to
\* the caller as any other error
CreateShortURLAfterGenerateSurfacing(id, err) ==
  IF err # Nil THEN [ done |-> TRUE, val |-> "", err |-> err ]
  ELSE [ done |-> FALSE, val |-> id, err |-> Nil ]

\* CreateShortURL on GenerateShortURLId's result (id, err), lines 110-117:
\* what it returns, or that it goes on to the insert
CreateShortURLAfterGenerate(id, err) ==
  IF err # Nil
  THEN IF ErrorsIs(err, ErrExists)
       THEN [ done |-> TRUE, val |-> id, err |-> Nil ]
       ELSE [ done |-> TRUE, val |-> "", err |-> err ]
  ELSE [ done |-> FALSE, val |-> id, err |-> Nil ]

\* a variant of CreateShortURLAfterInsert that returns the id with the error
CreateShortURLAfterInsertKeepingId(id, err) ==
  IF err # Nil
  THEN [ val |-> id, err |-> Wrap("failed to create short URL in storage", err) ]
  ELSE [ val |-> id, err |-> Nil ]

\* CreateShortURL after the insert returned err, lines 119-125
CreateShortURLAfterInsert(id, err) ==
  IF err # Nil
  THEN [ val |-> "", err |-> Wrap("failed to create short URL in storage", err) ]
  ELSE [ val |-> id, err |-> Nil ]

\* live, after CreateShortURL(longURL) returned (val, err)
LiveAfterCreate(longURL, val, err) ==
  IF err = Nil THEN [ live EXCEPT ![val] = longURL ] ELSE live

\* the for statement of line 168 goes on to another iteration after offset off
LoopContinues(off) == off + 1 < MaxShortURLIdRetries

\* the loop iteration at offset off of p's CreateShortURL(longURL), which has
\* made the collaborator calls cs: the lookup and what follows it
Probe(p, longURL, off, fault, cs) ==
  LET id  == IdTable[longURL][off]
      r   == StorageGetLongURL(short_urls, id, fault)
      g   == GenerateShortURLIdStep(longURL, id, r)
      e   == IF g.done THEN g ELSE GenerateShortURLIdAfterLoop(id)
      a   == CreateShortURLAfterGenerate(e.id, e.err)
      cs2 == cs \o << [ fn |-> "storage.GetLongURL", key |-> id, out |-> r ] >>
  IN  IF ~g.done /\ LoopContinues(off)
      THEN /\ Goto(p, "CreateShortURL", longURL, "CreateShortURL:lookup",
                   off + 1, cs2, NoSince, {}, {})
           /\ UNCHANGED live
      ELSE IF a.done
      THEN /\ Return(p, "CreateShortURL", longURL, a.val, a.err, cs2, NoSince,
                     {}, {})
           /\ live' = LiveAfterCreate(longURL, a.val, a.err)
      ELSE /\ Goto(p, "CreateShortURL", longURL, "CreateShortURL:insert", off, cs2,
                   NoSince, {}, {})
           /\ UNCHANGED live

\* lines 102-110 and the first iteration of the loop
CreateShortURL(p, longURL, fault) ==
  /\ Free(p)
  /\ IF validateLongURL(longURL) # Nil
     THEN /\ Return(p, "CreateShortURL", longURL, "", ErrInvalid, << >>, NoSince,
                    {}, {})
          /\ UNCHANGED live
     ELSE Probe(p, longURL, 0, fault, << >>)
  /\ UNCHANGED << short_urls, cacheEntries, fills, deleted >>
  /\ MappedAfter

\* a later iteration of the loop
CreateShortURLLookup(p, fault) ==
  /\ pc[p] = "CreateShortURL:lookup"
  /\ Probe(p, arg[p], loopOffset[p], fault, calls[p])
  /\ UNCHANGED << short_urls, cacheEntries, fills, deleted >>
  /\ MappedAfter

\* lines 119-125: m.storage.CreateShortURL and the return
CreateShortURLInsert(p, fault) ==
  /\ pc[p] = "CreateShortURL:insert"
  /\ LET id == IdTable[arg[p]][loopOffset[p]]
         r  == StorageCreateShortURL(short_urls, id, arg[p], fault)
         a  == CreateShortURLAfterInsert(id, r.err)
         c  == [ fn |-> "storage.CreateShortURL", key |-> id,
                 out |-> [ longURL |-> arg[p], err |-> r.err ] ]
         ins == IF r.err = Nil THEN { id } ELSE {}
     IN  /\ short_urls' = r.table
         /\ Return(p, "CreateShortURL", arg[p], a.val, a.err, calls[p] \o << c >>,
                   NoSince, ins, {})
         /\ deleted' = deleted \ ins
         /\ live' = LiveAfterCreate(arg[p], a.val, a.err)
  /\ UNCHANGED << cacheEntries, fills >>
  /\ MappedAfter

(***************************************************************************)
(* Manager.DeleteShortURL                                                  *)
(***************************************************************************)

\* a variant of DeleteShortURLAfterStorage that goes on to the Cache whatever
\* the Storage delete returned
DeleteShortURLAfterStorageContinue(err) == [ done |-> FALSE, err |-> Nil ]

\* DeleteShortURL after m.storage.DeleteShortURL returned err, lines 146-150:
\* what it returns, or that it goes on to the Cache
DeleteShortURLAfterStorage(err) ==
  IF err # Nil
  THEN [ done |-> TRUE,
         err |-> Wrap("failed to delete short URL from storage", err) ]
  ELSE [ done |-> FALSE, err |-> Nil ]

\* a variant of DeleteShortURLAfterCache that absorbs the Cache's error, as
\* GetLongURL does
DeleteShortURLAfterCacheAbsorbing(err) == Nil

\* what DeleteShortURL returns after m.cache.Delete returned err, lines 153-159
DeleteShortURLAfterCache(err) ==
  IF err # Nil THEN Wrap("failed to delete short URL from cache", err) ELSE Nil

\* lines 140-150: entry and m.storage.DeleteShortURL
DeleteShortURL(p, shortURLId, fault) ==
  /\ Free(p)
  /\ IF shortURLId = ""
     THEN /\ Return(p, "DeleteShortURL", shortURLId, "",
                    << "short URL ID cannot be empty" >>, << >>, NoSince, {}, {})
          /\ UNCHANGED << short_urls, live >>
     ELSE LET r  == StorageDeleteShortURL(short_urls, shortURLId, fault)
              a  == DeleteShortURLAfterStorage(r.err)
              cs == << [ fn |-> "storage.DeleteShortURL", key |-> shortURLId,
                         out |-> [ err |-> r.err ] ] >>
          IN  /\ short_urls' = r.table
              /\ live' = IF r.err # Nil THEN live
                         ELSE [ live EXCEPT ![shortURLId] = "" ]
              /\ IF a.done
                 THEN Return(p, "DeleteShortURL", shortURLId, "", a.err, cs,
                             NoSince, {}, {})
                 ELSE Goto(p, "DeleteShortURL", shortURLId, "DeleteShortURL:cache",
                           0, cs, [ NoSince EXCEPT !.deleted = (r.err = Nil) ],
                           {}, IF r.err = Nil THEN { shortURLId } ELSE {})
  /\ UNCHANGED << cacheEntries, fills, deleted >>
  /\ MappedAfter

\* lines 152-159: m.cache.Delete and the return
DeleteShortURLCache(p, fault) ==
  /\ pc[p] = "DeleteShortURL:cache"
  /\ LET r  == CacheDelete(cacheEntries, arg[p], fault)
         e  == DeleteShortURLAfterCache(r.err)
         cs == calls[p] \o << [ fn |-> "cache.Delete", key |-> arg[p],
                                out |-> [ err |-> r.err ] ] >>
     IN  /\ cacheEntries' = r.entries
         /\ Return(p, "DeleteShortURL", arg[p], "", e, cs, since[p], {}, {})
         /\ deleted' = IF e = Nil /\ since[p].deleted
                       THEN deleted \cup { arg[p] } ELSE deleted
  /\ UNCHANGED << short_urls, fills, live >>
  /\ MappedAfter

(***************************************************************************)
(* The environment.                                                        *)
(***************************************************************************)

\* a redis key with an expiration expires
Expire(k) ==
  /\ k \in DOMAIN cacheEntries
  /\ cacheEntries[k].ttl > 0
  /\ cacheEntries' = [ j \in DOMAIN cacheEntries \ {k} |-> cacheEntries[j] ]
  /\ event' = NoEvent
  /\ lastCreate' = NoCreate
  /\ UNCHANGED << short_urls, fills, pc, arg, loopOffset, calls, since, deleted,
                  live, visitor >>
  /\ MappedAfter
  /\ UNCHANGED << metricsVars, codecVars >>

\* the pending goroutines
PendingFills == BagToSet(fills)

(***************************************************************************)
(* GenerateIdWithOffset is exported: it is called by GenerateShortURLId    *)
(* and by any other caller, at any time.                                   *)
(***************************************************************************)

\* a call m.GenerateIdWithOffset(longURL, uint(offset)) by another caller
GenerateIdWithOffsetCall(longURL, offset) ==
  LET id == IdTable[longURL][offset]
      rows == Cardinality(DOMAIN short_urls)
      first == { g \in generated.calls :
                   g.longURL = longURL /\ g.offset = offset /\ g.id = id }
      call == [ longURL |-> longURL, offset |-> offset, id |-> id,
                rows |-> rows ]
  IN  /\ generated' =
           [ calls |-> IF first = {} THEN generated.calls \cup { call }
                       ELSE generated.calls,
             last |-> call ]
      /\ UNCHANGED << shortURLVars, metricsVars, codec, candidates >>

\* 0, 2^64 - 1, 2^64 - 2, 2^63, 62^6 - 1, 62^6 and the hash values of the
\* long URLs
HashValues ==
  { U64(0),
    << 255, 255, 255, 255, 255, 255, 255, 255 >>,
    << 254, 255, 255, 255, 255, 255, 255, 255 >>,
    << 0, 0, 0, 0, 0, 0, 0, 128 >>,
    << 63, 208, 142, 57, 13, 0, 0, 0 >>,
    << 64, 208, 142, 57, 13, 0, 0, 0 >> }
    \cup { Sum64a(Bytes(u)) : u \in ValidLongURLs }

\* 0, 1, 2, 3, 2^32 - 1, 2^32 and 2^64 - 1
Offsets ==
  { U64(0), U64(1), U64(2), U64(3),
    << 255, 255, 255, 255, 0, 0, 0, 0 >>,
    << 0, 0, 0, 0, 1, 0, 0, 0 >>,
    << 255, 255, 255, 255, 255, 255, 255, 255 >> }

\* a hash value and an offset are drawn
InitCodec ==
  /\ MetricsInit
  /\ ShortURLInit
  /\ codec \in [ hashValue : HashValues, offset : Offsets, id : { "" } ]
  /\ candidates = NoCandidates

\* GenerateIdWithOffset from hashValue := h.Sum64() on
GenerateIdOfHash ==
  /\ codec.id = ""
  /\ codec' = [ codec EXCEPT !.id = IdOfHash(codec.hashValue, codec.offset) ]
  /\ UNCHANGED << shortURLVars, metricsVars, generated, candidates >>

\* DefaultConfig: MaxShortURLIdRetries
DefaultMaxShortURLIdRetries == 10

\* HashValues and hash values that the probes of the default configuration
\* take past 2^64 or past a multiple of 62^6: 2^64 - 45, 2^64 - 44, 2^64 - 36,
\* 2^64 - 3 and 62^6 - 45
ProbedHashValues ==
  HashValues \cup
    { << 211, 255, 255, 255, 255, 255, 255, 255 >>,
      << 212, 255, 255, 255, 255, 255, 255, 255 >>,
      << 220, 255, 255, 255, 255, 255, 255, 255 >>,
      << 253, 255, 255, 255, 255, 255, 255, 255 >>,
      << 19, 208, 142, 57, 13, 0, 0, 0 >> }

\* a hash value is drawn
InitProbes ==
  /\ MetricsInit
  /\ ShortURLInit
  /\ codec = NoCodec
  /\ candidates \in [ hashValue : ProbedHashValues, ids : { << >> } ]

\* the next iteration of GenerateShortURLId's loop under the default
\* configuration, from hashValue := h.Sum64() on: the candidate of the next
\* offset
GenerateNextCandidate ==
  /\ Len(candidates.ids) < DefaultMaxShortURLIdRetries
  /\ candidates' =
       [ hashValue |-> candidates.hashValue,
         ids |-> Append(candidates.ids,
                        IdOfHash(candidates.hashValue,
                                 U64(Len(candidates.ids)))) ]
  /\ UNCHANGED << shortURLVars, metricsVars, generated, codec >>

(***************************************************************************)
(* The metrics manager, pkg/metrics/manager.go.  One goroutine, started by *)
(* Start, owns collectors: each of its steps is one case of its select     *)
(* statement, run to the next select.  Every RecordShortURLRequest call is *)
(* a goroutine of its own (RecordShortURLRequestAsync), at its select.     *)
(***************************************************************************)

\* the stop invocations of a run
MaxStops == 2

\* config.RequestChannelSize, the capacity of requestChan
RequestChannelSize == 1

\* the last instant of a run
MaxTime == 1

\* the readings of time.Now() and the ends of the windows asked for
Times == 0..MaxTime

VisitedShortURLIds == { "AABBCC", "DDEEFF" }

VisitorIds == { "127.0.0.1", "127.0.0.2" }

\* type Request
Requests == [ ShortURLId : VisitedShortURLIds, VisitorId : VisitorIds ]

\* Collector.UniqueVisits
UniqueVisits(c) == Cardinality(c.Visitors)

\* a variant of MetricsRow with the two counts in each other's column
MetricsRowSwapped(c, now) ==
  [ short_url_id |-> c.ShortURLId, visit_count |-> UniqueVisits(c),
    unique_visit_count |-> c.Visits, timestamp |-> now ]

\* the row CreateMetrics inserts for a collector
MetricsRow(c, now) ==
  [ short_url_id |-> c.ShortURLId, visit_count |-> c.Visits,
    unique_visit_count |-> UniqueVisits(c), timestamp |-> now ]

\* Storage.CreateMetrics: no statement for an empty map, else one INSERT of a
\* row per collector, now what time.Now() returned
StorageCreateMetrics(table, cs, now, fault) ==
  IF DOMAIN cs = {} THEN [ table |-> table, err |-> Nil ]
  ELSE IF fault # Nil
  THEN [ table |-> table,
         err |-> Wrap("executing create metrics query", fault) ]
  ELSE [ table |-> table (+)
                     SetToBag({ MetricsRow(cs[id], now) : id \in DOMAIN cs }),
         err |-> Nil ]

\* a variant of processRequest that counts a visit only for a new visitor
processRequestPerVisitor(cs, request) ==
  IF request.ShortURLId \notin DOMAIN cs
  THEN (request.ShortURLId :>
          [ ShortURLId |-> request.ShortURLId, Visits |-> 1,
            Visitors |-> { request.VisitorId } ]) @@ cs
  ELSE LET c == cs[request.ShortURLId]
       IN  [ cs EXCEPT ![request.ShortURLId] =
               [ ShortURLId |-> c.ShortURLId,
                 Visits |-> IF request.VisitorId \in c.Visitors
                            THEN c.Visits ELSE c.Visits + 1,
                 Visitors |-> c.Visitors \cup { request.VisitorId } ] ]

\* a variant of processRequest that creates a collector with no visit
processRequestFromZero(cs, request) ==
  IF request.ShortURLId \notin DOMAIN cs
  THEN (request.ShortURLId :>
          [ ShortURLId |-> request.ShortURLId, Visits |-> 0,
            Visitors |-> { request.VisitorId } ]) @@ cs
  ELSE [ cs EXCEPT ![request.ShortURLId] =
           [ @ EXCEPT !.Visits = @ + 1,
                      !.Visitors = @ \cup { request.VisitorId } ] ]

\* Manager.processRequest: the collectors after it, cs the collectors before
processRequest(cs, request) ==
  IF request.ShortURLId \notin DOMAIN cs
  THEN (request.ShortURLId :>
          [ ShortURLId |-> request.ShortURLId, Visits |-> 1,
            Visitors |-> { request.VisitorId } ]) @@ cs
  ELSE [ cs EXCEPT ![request.ShortURLId] =
           [ @ EXCEPT !.Visits = @ + 1,
                      !.Visitors = @ \cup { request.VisitorId } ] ]

\* a variant of CollectorsAfterFlush that keeps the collectors of a failed
\* CreateMetrics for the next flush
CollectorsAfterFlushRetrying(cs, err) == IF err # Nil THEN cs ELSE << >>

\* Manager.flushMetrics, line 94: the collectors after clear(m.collectors),
\* err what CreateMetrics returned
CollectorsAfterFlush(cs, err) == << >>

\* the visits of the collectors cs
RECURSIVE VisitsOf(_)
VisitsOf(cs) ==
  IF DOMAIN cs = {} THEN 0
  ELSE LET id == CHOOSE k \in DOMAIN cs : TRUE
       IN  cs[id].Visits + VisitsOf([ k \in DOMAIN cs \ {id} |-> cs[k] ])

\* Manager.flushMetrics; terminal: called from the stop case.  The clock
\* does not run backwards.
flushMetrics(fault, now, terminal) ==
  LET r == StorageCreateMetrics(short_url_metrics, collectors, now, fault)
  IN  /\ now >= clock
      /\ clock' = now
      /\ short_url_metrics' = r.table
      /\ collectors' = CollectorsAfterFlush(collectors, r.err)
      /\ mevent' = [ op |-> "flushMetrics", metrics |-> collectors,
                     err |-> r.err, terminal |-> terminal, window |-> window ]
      /\ window' = EmptyBag
      /\ tally' = [ tally EXCEPT
                      !.submitted = @ + VisitsOf(collectors),
                      !.terminalFlushes = @ + (IF terminal THEN 1 ELSE 0) ]

\* Manager.Start: the goroutine is spawned and the stop function returned
Start ==
  /\ ~panicked
  /\ loop = "none"
  /\ loop' = "select"
  /\ mevent' = [ op |-> "Start" ]
  /\ UNCHANGED << collectors, requestChan, stopChan, tickerC, recording,
                  panicked, short_url_metrics, clock, window, tally >>
  /\ UNCHANGED << shortURLVars, codecVars >>

\* a variant of Tick for a ticker that never fires
TickNever == FALSE

\* the ticker sends a tick on ticker.C, which buffers one
Tick ==
  /\ ~panicked
  /\ loop = "select"
  /\ ~tickerC
  /\ tickerC' = TRUE
  /\ mevent' = NoMetricsEvent
  /\ UNCHANGED << collectors, requestChan, stopChan, loop, recording, panicked,
                  short_url_metrics, clock, window, tally >>
  /\ UNCHANGED << shortURLVars, codecVars >>

\* a variant of LoopTick that flushes only when there are collectors
LoopTickSkippingEmpty(fault, now) ==
  /\ ~panicked
  /\ loop = "select"
  /\ tickerC
  /\ tickerC' = FALSE
  /\ IF DOMAIN collectors = {}
     THEN /\ mevent' = NoMetricsEvent
          /\ UNCHANGED << collectors, short_url_metrics, clock, window, tally >>
     ELSE flushMetrics(fault, now, FALSE)
  /\ UNCHANGED << requestChan, stopChan, loop, recording, panicked >>
  /\ UNCHANGED << shortURLVars, codecVars >>

\* case <-ticker.C
LoopTick(fault, now) ==
  /\ ~panicked
  /\ loop = "select"
  /\ tickerC
  /\ tickerC' = FALSE
  /\ flushMetrics(fault, now, FALSE)
  /\ UNCHANGED << requestChan, stopChan, loop, recording, panicked >>
  /\ UNCHANGED << shortURLVars, codecVars >>

\* a variant of LoopRequest that runs processRequest twice on the Request
LoopRequestTwice ==
  /\ ~panicked
  /\ loop = "select"
  /\ requestChan # << >>
  /\ LET request == Head(requestChan)
     IN  /\ collectors' =
              processRequest(processRequest(collectors, request), request)
         /\ window' = window (+) SetToBag({ request })
         /\ mevent' = [ op |-> "processRequest", request |-> request ]
  /\ requestChan' = Tail(requestChan)
  /\ tally' = [ tally EXCEPT !.processed = @ + 1 ]
  /\ UNCHANGED << stopChan, loop, tickerC, recording, panicked,
                  short_url_metrics, clock >>
  /\ UNCHANGED << shortURLVars, codecVars >>

\* case request := <-m.requestChan
LoopRequest ==
  /\ ~panicked
  /\ loop = "select"
  /\ requestChan # << >>
  /\ LET request == Head(requestChan)
     IN  /\ collectors' = processRequest(collectors, request)
         /\ window' = window (+) SetToBag({ request })
         /\ mevent' = [ op |-> "processRequest", request |-> request ]
  /\ requestChan' = Tail(requestChan)
  /\ tally' = [ tally EXCEPT !.processed = @ + 1 ]
  /\ UNCHANGED << stopChan, loop, tickerC, recording, panicked,
                  short_url_metrics, clock >>
  /\ UNCHANGED << shortURLVars, codecVars >>

\* a variant of LoopStop that returns without the flush
LoopStopWithoutFlush(fault, now) ==
  /\ ~panicked
  /\ loop = "select"
  /\ stopChan = "closed"
  /\ loop' = "exited"
  /\ mevent' = [ op |-> "return" ]
  /\ UNCHANGED << collectors, requestChan, stopChan, tickerC, recording,
                  panicked, short_url_metrics, clock, window, tally >>
  /\ UNCHANGED << shortURLVars, codecVars >>

\* case <-m.stopChan
LoopStop(fault, now) ==
  /\ ~panicked
  /\ loop = "select"
  /\ stopChan = "closed"
  /\ flushMetrics(fault, now, TRUE)
  /\ loop' = "exited"
  /\ UNCHANGED << requestChan, stopChan, tickerC, recording, panicked >>
  /\ UNCHANGED << shortURLVars, codecVars >>

\* close(m.stopChan): closing a closed channel panics
Close(ch) ==
  IF ch = "open" THEN [ ch |-> "closed", panic |-> FALSE ]
  ELSE [ ch |-> ch, panic |-> TRUE ]

\* a stop invocation, by name: one of at most max
StopInvocation(name, max) ==
  /\ ~panicked
  /\ tally.stops < max
  /\ LET r == Close(stopChan)
     IN  /\ stopChan' = r.ch
         /\ panicked' = r.panic
         /\ mevent' = [ op |-> name, panic |-> r.panic ]
  /\ tally' = [ tally EXCEPT !.stops = @ + 1 ]
  /\ UNCHANGED << collectors, requestChan, loop, tickerC, recording,
                  short_url_metrics, clock, window >>
  /\ UNCHANGED << shortURLVars, codecVars >>

\* Manager.Stop
Stop(max) == StopInvocation("Stop", max)

\* the function Start returned
StopFunc(max) ==
  /\ loop # "none"
  /\ StopInvocation("func returned by Start", max)

\* RecordShortURLRequest(id, ip) up to its select
RecordShortURLRequest(id, ip) ==
  /\ ~panicked
  /\ tally.records < MaxRecords
  /\ recording' = recording (+)
       SetToBag({ [ request |-> [ ShortURLId |-> id, VisitorId |-> ip ],
                    afterExit |-> loop = "exited" ] })
  /\ tally' = [ tally EXCEPT !.records = @ + 1 ]
  /\ mevent' = NoMetricsEvent
  /\ UNCHANGED << collectors, requestChan, stopChan, loop, tickerC, panicked,
                  short_url_metrics, clock, window >>
  /\ UNCHANGED << shortURLVars, codecVars >>

\* the call w returns, its select having taken the case outcome
RecordReturn(w, outcome) ==
  /\ recording' = recording (-) SetToBag({ w })
  /\ mevent' = [ op |-> "RecordShortURLRequest", request |-> w.request,
                 outcome |-> outcome, afterExit |-> w.afterExit ]
  /\ UNCHANGED << stopChan, loop, tickerC, panicked, short_url_metrics,
                  clock, window >>
  /\ UNCHANGED << shortURLVars, codecVars >>

\* a variant of RecordSend that runs processRequest in the caller's goroutine
RecordSendDirect(w) ==
  /\ ~panicked
  /\ BagIn(w, recording)
  /\ Len(requestChan) < RequestChannelSize
  /\ collectors' = processRequest(collectors, w.request)
  /\ UNCHANGED << requestChan, tally >>
  /\ RecordReturn(w, "enqueued")

\* case m.requestChan <- Request{...}
RecordSend(w) ==
  /\ ~panicked
  /\ BagIn(w, recording)
  /\ Len(requestChan) < RequestChannelSize
  /\ requestChan' = Append(requestChan, w.request)
  /\ tally' = [ tally EXCEPT
                  !.enqueued = @ + 1,
                  !.enqueuedBeforeStop =
                    @ + (IF stopChan = "open" THEN 1 ELSE 0) ]
  /\ UNCHANGED collectors
  /\ RecordReturn(w, "enqueued")

\* a variant of RecordTimeout for a select without the time.After case
RecordTimeoutNever(w) == FALSE

\* case <-time.After(...): the timer runs out on a call that is waiting, the
\* channel full
RecordTimeout(w) ==
  /\ ~panicked
  /\ BagIn(w, recording)
  /\ Len(requestChan) = RequestChannelSize
  /\ UNCHANGED << collectors, requestChan, tally >>
  /\ RecordReturn(w, "timeout")

\* case <-m.stopChan
RecordStopping(w) ==
  /\ ~panicked
  /\ BagIn(w, recording)
  /\ stopChan = "closed"
  /\ UNCHANGED << collectors, requestChan, tally >>
  /\ RecordReturn(w, "stopping")

\* the calls at their select
Recording == BagToSet(recording)

\* a nil *Metrics
NilMetrics == [ nil |-> TRUE ]

\* the rows of table that WHERE short_url_id = $1 AND timestamp BETWEEN $2
\* AND $3 selects
SelectedRows(table, shortURLId, from, to) ==
  { row \in BagToSet(table) :
      /\ row.short_url_id = shortURLId
      /\ from <= row.timestamp
      /\ row.timestamp <= to }

\* SUM(column) over the rows selected from table
RECURSIVE SumColumn(_, _, _)
SumColumn(table, rows, column) ==
  IF rows = {} THEN 0
  ELSE LET row == CHOOSE r \in rows : TRUE
       IN  CopiesIn(row, table) * row[column]
             + SumColumn(table, rows \ { row }, column)

\* Storage.GetMetrics: GROUP BY gives no row when no row is selected
\* (sql.ErrNoRows), else the two sums
StorageGetMetrics(table, shortURLId, from, to, fault) ==
  LET rows == SelectedRows(table, shortURLId, from, to)
  IN  IF fault # Nil
      THEN [ metrics |-> NilMetrics, found |-> FALSE,
             err |-> Wrap("executing get metrics query", fault) ]
      ELSE IF rows = {}
      THEN [ metrics |-> NilMetrics, found |-> FALSE, err |-> Nil ]
      ELSE [ metrics |->
               [ ShortURLId |-> shortURLId,
                 Visits |-> SumColumn(table, rows, "visit_count"),
                 UniqueVisits |-> SumColumn(table, rows, "unique_visit_count"),
                 From |-> from, To |-> to ],
             found |-> TRUE, err |-> Nil ]

\* a variant of GetShortURLMetricsAfterStorage that reports metrics not
\* found as an error
GetShortURLMetricsAfterStorageNotFound(r, id, from, to) ==
  IF r.err # Nil
  THEN [ val |-> NilMetrics,
         err |-> Wrap("getting metrics from storage", r.err) ]
  ELSE IF ~r.found
  THEN [ val |-> NilMetrics, err |-> << "metrics not found" >> ]
  ELSE [ val |-> r.metrics, err |-> Nil ]

\* Manager.GetShortURLMetrics from the return of m.storage.GetMetrics
GetShortURLMetricsAfterStorage(r, id, from, to) ==
  IF r.err # Nil
  THEN [ val |-> NilMetrics,
         err |-> Wrap("getting metrics from storage", r.err) ]
  ELSE IF ~r.found
  THEN [ val |-> [ ShortURLId |-> id, Visits |-> 0, UniqueVisits |-> 0,
                   From |-> from, To |-> to ],
         err |-> Nil ]
  ELSE [ val |-> r.metrics, err |-> Nil ]

\* Manager.GetShortURLMetrics
GetShortURLMetrics(id, from, to, fault) ==
  /\ ~panicked
  /\ LET r == StorageGetMetrics(short_url_metrics, id, from, to, fault)
         out == GetShortURLMetricsAfterStorage(r, id, from, to)
     IN  mevent' = [ op |-> "GetShortURLMetrics", id |-> id, from |-> from,
                     to |-> to, stored |-> r, val |-> out.val,
                     err |-> out.err ]
  /\ UNCHANGED << collectors, requestChan, stopChan, loop, tickerC, recording,
                  panicked, short_url_metrics, clock, window, tally >>
  /\ UNCHANGED << shortURLVars, codecVars >>

(***************************************************************************)
(* Specifications.  Spec lets every caller run every method; callers read  *)
(* the ids of offset 0 and create and delete every id.  The others are     *)
(* Spec with fewer steps allowed, so each of their runs is a run of Spec:  *)
(* SpecSeq has one caller, whose calls therefore run one after the other,  *)
(* next to the goroutines and the expiry; SpecReaders has every caller     *)
(* read and delete the ids of offset 0 and create on a Store that does not *)
(* fail; SpecWriters has every caller create and delete; SpecNoDelete has  *)
(* every caller create only; SpecFair has one caller, that deletes the ids *)
(* it reads, and every spawned goroutine scheduled.                        *)
(***************************************************************************)

\* the ids callers read: those of offset 0
ReadIds == { IdTable[u][0] : u \in ValidLongURLs }

Next ==
  \/ \E p \in Procs, id \in ReadIds, fault \in { Nil, ErrRedis } :
       GetLongURL(p, id, fault)
  \/ \E p \in Procs : \E fault \in Faults(p, ErrDriver) :
       GetLongURLStorage(p, fault)
  \/ \E f \in PendingFills : \E fault \in Faults(f.ctx, ErrRedis) :
       CacheSetGoroutine(f, fault)
  \/ \E p \in Procs, longURL \in LongURLs, fault \in { Nil, ErrDriver } :
       CreateShortURL(p, longURL, fault)
  \/ \E p \in Procs : \E fault \in Faults(p, ErrDriver) :
       CreateShortURLLookup(p, fault)
  \/ \E p \in Procs : \E fault \in Faults(p, ErrDriver) :
       CreateShortURLInsert(p, fault)
  \/ \E p \in Procs, id \in ShortURLIds \cup { "" }, fault \in { Nil, ErrDriver } :
       DeleteShortURL(p, id, fault)
  \/ \E p \in Procs : \E fault \in Faults(p, ErrRedis) :
       DeleteShortURLCache(p, fault)
  \/ \E k \in DOMAIN cacheEntries : Expire(k)

Spec == Init /\ [][Next]_vars

NextSeq ==
  \/ \E id \in ReadIds, fault \in { Nil, ErrRedis } :
       GetLongURL("p1", id, fault)
  \/ \E fault \in Faults("p1", ErrDriver) : GetLongURLStorage("p1", fault)
  \/ \E f \in PendingFills : \E fault \in Faults(f.ctx, ErrRedis) :
       CacheSetGoroutine(f, fault)
  \/ \E longURL \in LongURLs, fault \in { Nil, ErrDriver } :
       CreateShortURL("p1", longURL, fault)
  \/ \E fault \in Faults("p1", ErrDriver) : CreateShortURLLookup("p1", fault)
  \/ \E fault \in Faults("p1", ErrDriver) : CreateShortURLInsert("p1", fault)
  \/ \E id \in ShortURLIds \cup { "" }, fault \in { Nil, ErrDriver } :
       DeleteShortURL("p1", id, fault)
  \/ \E fault \in Faults("p1", ErrRedis) : DeleteShortURLCache("p1", fault)
  \/ \E k \in DOMAIN cacheEntries : Expire(k)

SpecSeq == Init /\ [][NextSeq]_vars

NextReaders ==
  \/ \E p \in Procs, id \in ReadIds, fault \in { Nil, ErrRedis } :
       GetLongURL(p, id, fault)
  \/ \E p \in Procs : \E fault \in Faults(p, ErrDriver) :
       GetLongURLStorage(p, fault)
  \/ \E f \in PendingFills : \E fault \in Faults(f.ctx, ErrRedis) :
       CacheSetGoroutine(f, fault)
  \/ \E p \in Procs, longURL \in ValidLongURLs : CreateShortURL(p, longURL, Nil)
  \/ \E p \in Procs : CreateShortURLLookup(p, Nil)
  \/ \E p \in Procs : CreateShortURLInsert(p, Nil)
  \/ \E p \in Procs, id \in ReadIds, fault \in { Nil, ErrDriver } :
       DeleteShortURL(p, id, fault)
  \/ \E p \in Procs : \E fault \in Faults(p, ErrRedis) :
       DeleteShortURLCache(p, fault)
  \/ \E k \in DOMAIN cacheEntries : Expire(k)

SpecReaders == Init /\ [][NextReaders]_vars

NextWriters ==
  \/ \E p \in Procs, longURL \in LongURLs, fault \in { Nil, ErrDriver } :
       CreateShortURL(p, longURL, fault)
  \/ \E p \in Procs : \E fault \in Faults(p, ErrDriver) :
       CreateShortURLLookup(p, fault)
  \/ \E p \in Procs : \E fault \in Faults(p, ErrDriver) :
       CreateShortURLInsert(p, fault)
  \/ \E p \in Procs, id \in ShortURLIds \cup { "" }, fault \in { Nil, ErrDriver } :
       DeleteShortURL(p, id, fault)
  \/ \E p \in Procs : \E fault \in Faults(p, ErrRedis) :
       DeleteShortURLCache(p, fault)

SpecWriters == Init /\ [][NextWriters]_vars

NextNoDelete ==
  \/ \E p \in Procs, longURL \in LongURLs, fault \in { Nil, ErrDriver } :
       CreateShortURL(p, longURL, fault)
  \/ \E p \in Procs : \E fault \in Faults(p, ErrDriver) :
       CreateShortURLLookup(p, fault)
  \/ \E p \in Procs : \E fault \in Faults(p, ErrDriver) :
       CreateShortURLInsert(p, fault)

SpecNoDelete == Init /\ [][NextNoDelete]_vars

NextFair ==
  \/ \E id \in ReadIds, fault \in { Nil, ErrRedis } :
       GetLongURL("p1", id, fault)
  \/ \E fault \in Faults("p1", ErrDriver) : GetLongURLStorage("p1", fault)
  \/ \E f \in PendingFills : \E fault \in Faults(f.ctx, ErrRedis) :
       CacheSetGoroutine(f, fault)
  \/ \E longURL \in LongURLs, fault \in { Nil, ErrDriver } :
       CreateShortURL("p1", longURL, fault)
  \/ \E fault \in Faults("p1", ErrDriver) : CreateShortURLLookup("p1", fault)
  \/ \E fault \in Faults("p1", ErrDriver) : CreateShortURLInsert("p1", fault)
  \/ \E id \in ReadIds \cup { "" }, fault \in { Nil, ErrDriver } :
       DeleteShortURL("p1", id, fault)
  \/ \E fault \in Faults("p1", ErrRedis) : DeleteShortURLCache("p1", fault)
  \/ \E k \in DOMAIN cacheEntries : Expire(k)

\* every goroutine GetLongURL can spawn: callers read the ids of offset 0
AllFills ==
  { CacheFill(p, id, u) : p \in Procs, id \in ReadIds, u \in ValidLongURLs }

\* the Go scheduler runs every goroutine that can run
Fairness ==
  \A f \in AllFills :
    WF_vars(\E fault \in Faults(f.ctx, ErrRedis) : CacheSetGoroutine(f, fault))

SpecFair == Init /\ [][NextFair]_vars /\ Fairness

\* time passes: a key that has an expiration expires
ExpiryFairness ==
  \A id \in ReadIds : WF_vars(Expire(Namespace(id)))

\* SpecFair while time passes
SpecExpiry == Init /\ [][NextFair]_vars /\ Fairness /\ ExpiryFairness

\* one caller that creates, reads and deletes on clients that do not fail,
\* next to the callers of GenerateIdWithOffset
NextGenerate ==
  \/ \E longURL \in ValidLongURLs : CreateShortURL("p1", longURL, Nil)
  \/ CreateShortURLLookup("p1", Nil)
  \/ CreateShortURLInsert("p1", Nil)
  \/ \E id \in ReadIds : DeleteShortURL("p1", id, Nil)
  \/ DeleteShortURLCache("p1", Nil)
  \/ \E offset \in 0..(MaxShortURLIdRetries - 1) :
       GenerateIdWithOffsetCall("https://example.com", offset)

SpecGenerate == Init /\ [][NextGenerate]_vars

NextCodec == GenerateIdOfHash

SpecCodec == InitCodec /\ [][NextCodec]_vars

NextProbes == GenerateNextCandidate

SpecProbes == InitProbes /\ [][NextProbes]_vars

\* the metrics manager while nothing stops it, its callers recording visits
\* of ids by ips, its flushes reading a time of times
NextMetricsRunning(ids, ips, times) ==
  \/ Start
  \/ Tick
  \/ \E fault \in { Nil, ErrDriver }, now \in times : LoopTick(fault, now)
  \/ LoopRequest
  \/ \E id \in ids, ip \in ips : RecordShortURLRequest(id, ip)
  \/ \E w \in Recording : RecordSend(w)
  \/ \E w \in Recording : RecordTimeout(w)

\* the metrics manager, stopped at most stops times
NextMetricsOf(stops, ids, times) ==
  \/ NextMetricsRunning(ids, VisitorIds, times)
  \/ \E fault \in { Nil, ErrDriver }, now \in times : LoopStop(fault, now)
  \/ Stop(stops)
  \/ StopFunc(stops)
  \/ \E w \in Recording : RecordStopping(w)

NextMetrics == NextMetricsOf(MaxStops, VisitedShortURLIds, { 0 })

SpecMetrics == Init /\ [][NextMetrics]_vars

\* stopped once, as main does, its callers recording visits of one id
NextMetricsOneStop == NextMetricsOf(1, { "AABBCC" }, { 0 })

\* every call RecordShortURLRequest can then be
AllRecording ==
  [ request : { r \in Requests : r.ShortURLId = "AABBCC" }, afterExit : BOOLEAN ]

\* the Go scheduler runs the goroutine of Start and the goroutines of the
\* calls, select takes every case that stays ready, and timers run out
MetricsFairness ==
  /\ WF_vars(\E fault \in { Nil, ErrDriver } : LoopStop(fault, 0))
  /\ \A w \in AllRecording :
       WF_vars(RecordSend(w) \/ RecordTimeout(w) \/ RecordStopping(w))

SpecMetricsFair == Init /\ [][NextMetricsOneStop]_vars /\ MetricsFairness

\* the metrics manager that nothing stops, its callers recording visits of
\* one id
NextMetricsLive == NextMetricsRunning({ "AABBCC" }, VisitorIds, { 0 })

\* the ticker fires, the Go scheduler runs the goroutine of Start and the
\* goroutines of the calls, select takes every case that stays ready, and
\* timers run out
MetricsLiveFairness ==
  /\ WF_vars(Tick)
  /\ WF_vars(\E fault \in { Nil, ErrDriver } : LoopTick(fault, 0))
  /\ WF_vars(LoopRequest)
  /\ \A w \in AllRecording : WF_vars(RecordSend(w) \/ RecordTimeout(w))

SpecMetricsLive == Init /\ [][NextMetricsLive]_vars /\ MetricsLiveFairness

\* the metrics manager while time passes, one visitor visiting one id, next
\* to the callers that read the metrics of a window
NextMetricsRead ==
  \/ NextMetricsRunning({ "AABBCC" }, { "127.0.0.1" }, Times)
  \/ \E id \in VisitedShortURLIds, from \in Times, to \in Times,
        fault \in { Nil, ErrDriver } :
       GetShortURLMetrics(id, from, to, fault)

SpecMetricsRead == Init /\ [][NextMetricsRead]_vars

\* one caller whose reads are the redirect handler's for one visitor, who
\* creates and deletes one long URL, on a Store that fails only in its reads,
\* next to the metrics manager that nothing stops
NextRedirect ==
  \/ \E id \in ReadIds, fault \in { Nil, ErrRedis } :
       RedirectToLongURL("p1", id, "127.0.0.1", fault)
  \/ \E fault \in Faults("p1", ErrDriver) : GetLongURLStorage("p1", fault)
  \/ \E f \in PendingFills : CacheSetGoroutine(f, Nil)
  \/ CreateShortURL("p1", "https://example.com", Nil)
  \/ CreateShortURLInsert("p1", Nil)
  \/ \E id \in ReadIds : DeleteShortURL("p1", id, Nil)
  \/ DeleteShortURLCache("p1", Nil)
  \/ Start
  \/ LoopRequest
  \/ \E w \in Recording : RecordSend(w)
  \/ \E w \in Recording : RecordTimeout(w)

SpecRedirect == Init /\ [][NextRedirect]_vars

(***************************************************************************)
(* Properties.  They read the calls a returning call has made from event.  *)
(***************************************************************************)

IsLookup(c) == c.fn = "storage.GetLongURL"
IsInsert(c) == c.fn = "storage.CreateShortURL"
IsSpawn(c) == c.fn = "go cache.Set"

Lookups(cs) == SelectSeq(cs, IsLookup)
Inserts(cs) == SelectSeq(cs, IsInsert)
Spawns(cs) == SelectSeq(cs, IsSpawn)

\* no Storage or Cache call of cs returned an error
NoCallError(cs) == \A k \in 1..Len(cs) : IsSpawn(cs[k]) \/ cs[k].out.err = Nil

\* the ids of the rows holding longURL
RecordsOf(longURL) == { id \in DOMAIN short_urls : short_urls[id] = longURL }

\* event is the return of a CreateShortURL of a valid long URL
Created == event.op = "CreateShortURL" /\ validateLongURL(event.arg) = Nil

\* event is the return of the second of two CreateShortURL calls for one valid
\* long URL that a caller made with no step of anything else in between
SecondCreate ==
  /\ Created
  /\ event.prev.proc = event.proc
  /\ event.prev.longURL = event.arg

\* event is the return of a GetLongURL
Got == event.op = "GetLongURL"

\* ... which read the Store, the read returning no error
ServedFromStore ==
  /\ Got
  /\ Lookups(event.calls) # << >>
  /\ Lookups(event.calls)[1].out.err = Nil

\* event is a spawned goroutine's cache Set having returned
FillRan == event.op = "go cache.Set"

----------------------------------------------------------------------------

C2_Original ==
  (Got /\ event.since.deleted /\ NoCallError(event.calls))
  => event.err = ErrNotFound

\* C2, amended: a GetLongURL(id) that starts after DeleteShortURL(id) has
\* returned success, id not inserted since, and that reads the Store fails
\* with ErrShortURLNotFound.  (A goroutine spawned before the deletion may set
\* the cache after it, and then the read is served the deleted long URL.)
C2_GetAfterDelete ==
  (ServedFromStore /\ event.since.deleted)
  => event.err = ErrNotFound /\ event.val = ""

\* a GetLongURL(id) after the deletion of id has failed with
\* ErrShortURLNotFound while a goroutine spawned for id has not run
C2_Witness ==
  /\ ServedFromStore
  /\ event.since.deleted
  /\ event.err = ErrNotFound
  /\ \E f \in PendingFills : f.key = event.arg

\* C3 as stated: a GetLongURL(id) that starts after CreateShortURL(u) has
\* returned id, no DeleteShortURL(id) having run its Storage delete since,
\* and whose calls return no error returns u.
C3_Original ==
  (Got /\ event.since.live # "" /\ NoCallError(event.calls))
  => event.err = Nil /\ event.val = event.since.live

\* C3, amended: a GetLongURL(id) that starts after CreateShortURL(u) has
\* returned id, no DeleteShortURL(id) having run its Storage delete since,
\* and that reads the Store returns u.  (The cache may hold what a goroutine
\* spawned before an earlier deletion of id has set: the long URL id had
\* then.)
C3_GetAfterCreate ==
  (ServedFromStore /\ event.since.live # "")
  => event.err = Nil /\ event.val = event.since.live

\* a GetLongURL(id) has returned from the Store the long URL the last
\* CreateShortURL returned id for
C3_Witness ==
  /\ ServedFromStore
  /\ event.since.live # ""
  /\ event.val = event.since.live
  /\ Spawns(event.calls) # << >>

\* C4: CreateShortURL(u) looks up GenerateIdWithOffset(u, 0), (u, 1), ... in
\* this order, goes on only past rows holding another long URL, and stops at
\* the first slot that is free, which it then inserts as (id, u) and returns,
\* or that holds u, which it returns writing nothing; it stops at a row
\* holding another long URL only when the offsets are used up.
C4_ProbingOrder ==
  Created =>
    LET u  == event.arg
        ls == Lookups(event.calls)
        is == Inserts(event.calls)
        n  == Len(ls)
    IN  /\ n \in 1..MaxShortURLIdRetries
        /\ event.calls = ls \o is
        /\ \A k \in 1..n : ls[k].key = IdTable[u][k - 1]
        /\ \A k \in 1..(n - 1) :
             ls[k].out.err = Nil /\ ls[k].out.found /\ ls[k].out.longURL # u
        /\ ls[n].out.err = Nil =>
             IF ~ls[n].out.found
             THEN /\ Len(is) = 1
                  /\ is[1].key = ls[n].key
                  /\ is[1].out.longURL = u
                  /\ is[1].out.err = Nil =>
                       /\ event.err = Nil
                       /\ event.val = ls[n].key
                       /\ ls[n].key \in RecordsOf(u)
             ELSE IF ls[n].out.longURL = u
             THEN is = << >> /\ event.err = Nil /\ event.val = ls[n].key
             ELSE is = << >> /\ event.err # Nil /\ n = MaxShortURLIdRetries

\* a CreateShortURL(u) has found offset 0 holding another long URL and offset
\* 1 free, and has inserted and returned GenerateIdWithOffset(u, 1)
C4_Witness ==
  /\ Created
  /\ event.err = Nil
  /\ Len(Lookups(event.calls)) = 2
  /\ Len(Inserts(event.calls)) = 1
  /\ event.val = IdTable[event.arg][1]
  /\ event.val \in RecordsOf(event.arg)

\* every slot of longURL holds another long URL
AllSlotsTaken(longURL) ==
  \A o \in 0..(MaxShortURLIdRetries - 1) :
    /\ IdTable[longURL][o] \in DOMAIN short_urls
    /\ short_urls[IdTable[longURL][o]] # longURL

\* no lookup of cs returned an error
NoLookupError(cs) ==
  \A k \in 1..Len(Lookups(cs)) : Lookups(cs)[k].out.err = Nil

\* C5: a CreateShortURL(u) made when every slot of u holds another long URL,
\* no lookup failing, returns the exhaustion error and no id, having made
\* MaxShortURLIdRetries lookups and no other call.  (With one caller the rows
\* at the return are those at the call: a row the call had inserted would
\* hold u.)
C5_Exhaustion ==
  (Created /\ AllSlotsTaken(event.arg) /\ NoLookupError(event.calls))
  => /\ event.err = ErrGenerationExhausted
     /\ event.val = ""
     /\ Len(event.calls) = MaxShortURLIdRetries
     /\ Lookups(event.calls) = event.calls

\* a CreateShortURL has returned the exhaustion error
C5_Witness ==
  /\ Created
  /\ AllSlotsTaken(event.arg)
  /\ event.err = ErrGenerationExhausted

\* C6 as stated: a CreateShortURL(u) whose insert the driver ran and whose id
\* is mapped to u in the Store returns that id with success.
C6_Original ==
  (/\ Created
   /\ Inserts(event.calls) # << >>
   /\ Inserts(event.calls)[1].out.err \in { Nil, ErrDuplicateKey }
   /\ Inserts(event.calls)[1].key \in RecordsOf(event.arg))
  => event.err = Nil /\ event.val = Inserts(event.calls)[1].key

\* C7 as stated, in the form a run can refute: when a CreateShortURL(u) has
\* seen offset 0 free and run its insert after another's insert for u, both
\* inserts have taken effect and two ids are mapped to u.
C7_Original ==
  (/\ Created
   /\ Inserts(event.calls) # << >>
   /\ Inserts(event.calls)[1].out.err = ErrDuplicateKey
   /\ Inserts(event.calls)[1].key \in RecordsOf(event.arg))
  => Cardinality(RecordsOf(event.arg)) >= 2

\* C7, amended: while callers only create, no two ids are mapped to one long
\* URL.  (Two calls for u can both see offset 0 free and both run their
\* insert, for the same id: the second insert fails on the primary key.)
C7_OneIdPerLongURL ==
  \A u \in ValidLongURLs : Cardinality(RecordsOf(u)) <= 1

\* two overlapping CreateShortURL(u) have both seen offset 0 free and both run
\* their insert
C7_Witness ==
  /\ Created
  /\ Len(Lookups(event.calls)) = 1
  /\ ~Lookups(event.calls)[1].out.found
  /\ Inserts(event.calls) # << >>
  /\ Inserts(event.calls)[1].out.err = ErrDuplicateKey
  /\ Inserts(event.calls)[1].key \in RecordsOf(event.arg)

\* C8: a GetLongURL that finds its id in the cache returns the cached value
\* and calls nothing else; one that does not (the cache returning no error)
\* and finds the id in the Store returns the row's long URL and has spawned
\* one goroutine, still to run, that sets (id, long URL) with the configured
\* expiration; once such a goroutine's Set has succeeded, a cache lookup of
\* the id finds that value, expiring after the configured time.
C8_CacheAside ==
  /\ Got =>
       LET c == event.calls[1].out
       IN  /\ event.calls[1].fn = "cache.Get"
           /\ c.found =>
                /\ Len(event.calls) = 1
                /\ event.err = Nil
                /\ event.val = c.value
           /\ (~c.found /\ c.err = Nil /\ ServedFromStore
                 /\ Lookups(event.calls)[1].out.found) =>
                LET f == [ ctx |-> "background", key |-> event.arg,
                           value |-> Lookups(event.calls)[1].out.longURL,
                           ttl |-> ShortURLCacheTTLInSeconds ]
                IN  /\ event.err = Nil
                    /\ event.val = Lookups(event.calls)[1].out.longURL
                    /\ Len(event.calls) = 3
                    /\ Spawns(event.calls)
                         = << [ fn |-> "go cache.Set", key |-> event.arg,
                                out |-> f ] >>
                    /\ BagIn(f, fills)
  /\ (FillRan /\ event.err = Nil) =>
       /\ CacheGet(cacheEntries, event.arg, Nil)
            = [ value |-> event.val, found |-> TRUE, err |-> Nil ]
       /\ cacheEntries[Namespace(event.arg)].ttl = ShortURLCacheTTLInSeconds

\* a GetLongURL has been served from the cache what a goroutine has set
C8_Witness ==
  /\ Got
  /\ event.calls[1].out.found
  /\ event.err = Nil
  /\ event.arg \in DOMAIN short_urls
  /\ event.val = short_urls[event.arg]

\* what GetLongURL returns when the cache has nothing for the id and the Store
\* lookup returns r
OnCacheMiss(ev, r) ==
  /\ (r.err = Nil /\ r.found) => (ev.err = Nil /\ ev.val = r.longURL)
  /\ (r.err = Nil /\ ~r.found) => (ev.err = ErrNotFound /\ ev.val = "")
  /\ r.err # Nil =>
       /\ ev.err = << "failed to get long URL from storage" >> \o r.err
       /\ ev.val = ""

\* C9: a GetLongURL whose cache lookup returns an error reads the Store and
\* returns what it returns on a cache miss; a goroutine whose Set returns an
\* error leaves the Store, the cache and every caller as they were.
C9_CacheFailuresAbsorbed ==
  [][ /\ (event'.op = "GetLongURL" /\ event'.calls[1].out.err # Nil) =>
           /\ Len(event'.calls) >= 2
           /\ IsLookup(event'.calls[2])
           /\ event'.calls[2].key = event'.arg
           /\ event'.calls[2].out = StorageGetLongURL(short_urls, event'.arg,
                                                       event'.calls[2].out.err)
           /\ OnCacheMiss(event', event'.calls[2].out)
      /\ (event'.op = "go cache.Set" /\ event'.err # Nil) =>
           /\ short_urls' = short_urls
           /\ cacheEntries' = cacheEntries
           /\ << pc, arg, loopOffset, calls >>' = << pc, arg, loopOffset, calls >>
           /\ event'.proc = ""
    ]_vars

\* a GetLongURL whose cache lookup returned an error has returned the row's
\* long URL
C9_Witness ==
  /\ Got
  /\ event.calls[1].out.err # Nil
  /\ event.err = Nil
  /\ event.arg \in DOMAIN short_urls
  /\ event.val = short_urls[event.arg]

\* C10: a GetLongURL that returns a row's long URL returns with its goroutine
\* still to run, under a context that is not the caller's; every goroutine
\* spawned runs its Set, whatever its caller does; and a goroutine's Set,
\* failed or not, ends the goroutine: there is one attempt.
C10_DetachedFill ==
  /\ [](\A k \in 1..Len(event.calls) :
          IsSpawn(event.calls[k]) =>
            /\ BagIn(event.calls[k].out, fills)
            /\ event.calls[k].out.ctx \notin Procs
            /\ pc[event.proc] = "idle")
  /\ \A f \in AllFills :
       BagIn(f, fills) ~> (FillRan /\ event.arg = f.key /\ event.val = f.value)
  /\ [][ event'.op = "go cache.Set" =>
           /\ BagCardinality(fills') = BagCardinality(fills) - 1
           /\ \E f \in PendingFills :
                /\ f.key = event'.arg /\ f.value = event'.val
                /\ fills' = fills (-) SetToBag({ f })
                /\ event'.err # ErrContextCanceled
       ]_vars

\* a goroutine's Set has failed after its caller had returned, no other
\* goroutine left
C10_Witness ==
  /\ FillRan
  /\ event.err = ErrRedis
  /\ pc = [ p \in Procs |-> "idle" ]
  /\ fills = EmptyBag

IsStorageDelete(c) == c.fn = "storage.DeleteShortURL"
IsCacheDelete(c) == c.fn = "cache.Delete"

\* a DeleteShortURL has returned
Deleted == event.op = "DeleteShortURL"

\* C11: a DeleteShortURL whose Storage delete failed returns, in the step of
\* that failure, an error that wraps the Storage's; the Storage delete is the
\* only collaborator call it has made; and that step changes neither the
\* short_urls table nor the cache.
C11_DeleteAbortsOnStoreFailure ==
  [][ ( /\ event'.op = "DeleteShortURL"
        /\ \E k \in 1..Len(event'.calls) :
             IsStorageDelete(event'.calls[k]) /\ event'.calls[k].out.err # Nil )
      => /\ Len(event'.calls) = 1
         /\ event'.err =
              Wrap("failed to delete short URL from storage",
                   event'.calls[1].out.err)
         /\ ErrorsIs(event'.err, event'.calls[1].out.err)
         /\ short_urls' = short_urls
         /\ cacheEntries' = cacheEntries
    ]_vars

\* a DeleteShortURL(id) has failed on the Storage while id has its record and
\* its cache entry
C11_Witness ==
  /\ Deleted
  /\ event.err = Wrap("failed to delete short URL from storage", ErrDriver)
  /\ event.arg \in DOMAIN short_urls
  /\ Namespace(event.arg) \in DOMAIN cacheEntries

\* C12: a DeleteShortURL of a non-empty id calls the Storage delete first, and
\* the Cache delete only second and only after the Storage delete succeeded;
\* one that returns nil has made both calls; and when the Cache delete fails,
\* the call returns an error wrapping the Cache's, the step leaves short_urls
\* as it is (no rollback) and, unless a CreateShortURL has inserted the id
\* since the Storage delete, the id has no record.
C12_DeleteOrdering ==
  [][ event'.op = "DeleteShortURL" =>
        LET cs == event'.calls
        IN  /\ event'.arg # "" => Len(cs) >= 1 /\ IsStorageDelete(cs[1])
            /\ \A k \in 1..Len(cs) :
                 IsCacheDelete(cs[k]) =>
                   k = 2 /\ IsStorageDelete(cs[1]) /\ cs[1].out.err = Nil
            /\ event'.err = Nil => Len(cs) = 2 /\ IsCacheDelete(cs[2])
            /\ (Len(cs) = 2 /\ cs[2].out.err # Nil) =>
                 /\ event'.err =
                      Wrap("failed to delete short URL from cache", cs[2].out.err)
                 /\ ErrorsIs(event'.err, cs[2].out.err)
                 /\ short_urls' = short_urls
                 /\ event'.since.deleted => event'.arg \notin DOMAIN short_urls'
    ]_vars

\* a DeleteShortURL(id) has failed on the Cache: the record of id is gone and
\* its cache entry is still there
C12_Witness ==
  /\ Deleted
  /\ Len(event.calls) = 2
  /\ event.err = Wrap("failed to delete short URL from cache", ErrRedis)
  /\ event.since.deleted
  /\ event.arg \notin DOMAIN short_urls
  /\ Namespace(event.arg) \in DOMAIN cacheEntries

\* C13: a CreateShortURL of a long URL that is empty or does not start with
\* "https://" returns ErrInvalidLongURL and the empty id, has made no
\* collaborator call, and its step changes neither short_urls nor the cache
\* nor the goroutines; a CreateShortURL of any other long URL does not return
\* ErrInvalidLongURL and goes on to the Storage.
C13_ValidationPrecedesIO ==
  [][ event'.op = "CreateShortURL" =>
        IF event'.arg = "" \/ ~HasPrefix(event'.arg, "https://")
        THEN /\ event'.err = ErrInvalid
             /\ event'.val = ""
             /\ event'.calls = << >>
             /\ short_urls' = short_urls
             /\ cacheEntries' = cacheEntries
             /\ fills' = fills
        ELSE /\ ~ErrorsIs(event'.err, ErrInvalid)
             /\ Len(event'.calls) >= 1
             /\ IsLookup(event'.calls[1])
    ]_vars

\* a CreateShortURL("http://example.com") has been rejected while the table,
\* the cache and a goroutine were there to be changed
C13_Witness ==
  /\ event.op = "CreateShortURL"
  /\ event.arg = "http://example.com"
  /\ event.err = ErrInvalid
  /\ short_urls # << >>
  /\ cacheEntries # << >>
  /\ fills # EmptyBag

(***************************************************************************)
(* Properties of the metrics manager.  They read what a step did from      *)
(* mevent.                                                                 *)
(***************************************************************************)

\* flushMetrics has run
Flushed == mevent.op = "flushMetrics"

\* a RecordShortURLRequest has returned
Recorded == mevent.op = "RecordShortURLRequest"

\* a stop invocation has run
StopInvoked == mevent.op \in { "Stop", "func returned by Start" }

\* the Requests of the bag b for id
RequestsFor(b, id) ==
  [ r \in { x \in BagToSet(b) : x.ShortURLId = id } |-> b[r] ]

\* the collectors the Requests of the bag b amount to: per id with a Request,
\* the number of its Requests and the set of their visitors
Aggregate(b) ==
  [ id \in { r.ShortURLId : r \in BagToSet(b) } |->
      [ ShortURLId |-> id,
        Visits |-> BagCardinality(RequestsFor(b, id)),
        Visitors |-> { r.VisitorId : r \in DOMAIN RequestsFor(b, id) } ] ]

\* C14: the map a flush submits to the Store has exactly the ids of the
\* Requests processed since the previous flush, each with the number of those
\* Requests as Visits and the set of their visitors as Visitors.
C14_AggregationResult ==
  Flushed => mevent.metrics = Aggregate(mevent.window)

\* a flush that is not the first to submit visits has submitted a collector
\* of two visits by one visitor
C14_Witness ==
  /\ Flushed
  /\ \E id \in DOMAIN mevent.metrics :
       /\ mevent.metrics[id].Visits = 2
       /\ UniqueVisits(mevent.metrics[id]) = 1
  /\ tally.submitted > VisitsOf(mevent.metrics)

\* C15: every flush, whatever CreateMetrics returned, leaves collectors
\* empty; a flush from the ticker case leaves the goroutine at its select;
\* and the visits submitted so far, those of failed submissions included,
\* and the visits in collectors are together the Requests processed: no
\* visit is submitted twice.
C15_FlushAlwaysClears ==
  /\ [](tally.submitted + VisitsOf(collectors) = tally.processed)
  /\ [][ mevent'.op = "flushMetrics" =>
           /\ collectors' = << >>
           /\ ~mevent'.terminal => loop' = "select"
       ]_vars

\* a flush has stored its one collector after an earlier flush had failed to
\* store its own
C15_Witness ==
  /\ Flushed
  /\ mevent.err = Nil
  /\ mevent.metrics # << >>
  /\ tally.submitted > VisitsOf(mevent.metrics)
  /\ BagCardinality(short_url_metrics) = 1
  /\ loop = "select"

\* C16: every RecordShortURLRequest call returns; it returns having enqueued
\* its Request or, without enqueuing, on its timeout with the channel full
\* (or, once stopChan is closed, on the stop case); a call that returns
\* without enqueuing leaves the channel and the collectors as they were, and
\* the Requests processed or in the channel are the Requests enqueued, so
\* that its Request is never counted.
C16_BoundedBackpressure ==
  /\ \A w \in AllRecording :
       BagIn(w, recording) ~> (Recorded /\ mevent.request = w.request)
  /\ [](tally.processed + Len(requestChan) = tally.enqueued)
  /\ [][ mevent'.op = "RecordShortURLRequest" =>
           /\ mevent'.outcome \in { "enqueued", "timeout", "stopping" }
           /\ mevent'.outcome = "enqueued" =>
                requestChan' = Append(requestChan, mevent'.request)
           /\ mevent'.outcome = "timeout" =>
                Len(requestChan) = RequestChannelSize
           /\ mevent'.outcome = "stopping" => stopChan = "closed"
           /\ stopChan = "open" => mevent'.outcome \in { "enqueued", "timeout" }
           /\ mevent'.outcome # "enqueued" =>
                /\ requestChan' = requestChan
                /\ collectors' = collectors
                /\ tally' = tally
       ]_vars

\* a call has run into its timeout while the goroutine of Start was running
\* and no stop invoked
C16_Witness ==
  /\ Recorded
  /\ mevent.outcome = "timeout"
  /\ loop = "select"
  /\ stopChan = "open"

\* C17: once stopChan is closed, the goroutine of Start leaves its loop; it
\* leaves it by a flush of the collectors it then has, the last flush; and
\* once it has left, no step dequeues, flushes, or changes collectors or the
\* table.
C17_StopProtocol ==
  /\ (stopChan = "closed" /\ loop = "select") ~> (loop = "exited")
  /\ [](tally.terminalFlushes = (IF loop = "exited" THEN 1 ELSE 0))
  /\ [][ (loop # "exited" /\ loop' = "exited") =>
           /\ stopChan = "closed"
           /\ mevent'.op = "flushMetrics"
           /\ mevent'.terminal
           /\ mevent'.metrics = collectors
       ]_vars
  /\ [][ loop = "exited" =>
           /\ loop' = "exited"
           /\ mevent'.op \notin { "flushMetrics", "processRequest" }
           /\ collectors' = collectors
           /\ short_url_metrics' = short_url_metrics
           /\ tally'.processed = tally.processed
           /\ tally'.submitted = tally.submitted
           /\ Len(requestChan') >= Len(requestChan)
           /\ SubSeq(requestChan', 1, Len(requestChan)) = requestChan
       ]_vars

\* the goroutine has left its loop by a flush of collectors that were not
\* empty, which the Store failed to take
C17_Witness ==
  /\ Flushed
  /\ mevent.terminal
  /\ mevent.metrics # << >>
  /\ mevent.err # Nil
  /\ loop = "exited"

\* C18 as stated: no stop invocation faults, and there is one terminal flush
\* at most.
C18_Original ==
  /\ StopInvoked => ~mevent.panic
  /\ tally.terminalFlushes <= 1

\* C19 as stated: a RecordShortURLRequest call that starts after the
\* goroutine of Start has left its loop does not enqueue its Request.
C19_Original ==
  (Recorded /\ mevent.afterExit) => mevent.outcome # "enqueued"

\* C20: every collector in the map has at least one visit and one visitor, no
\* more visitors than visits, and as ShortURLId the key it is stored under.
C20_CollectorInvariant ==
  \A id \in DOMAIN collectors :
    /\ collectors[id].Visits >= Cardinality(collectors[id].Visitors)
    /\ collectors[id].Visits >= 1
    /\ Cardinality(collectors[id].Visitors) >= 1
    /\ collectors[id].ShortURLId = id

\* two collectors, one of them of more visits than visitors
C20_Witness ==
  /\ Cardinality(DOMAIN collectors) = 2
  /\ \E id \in DOMAIN collectors :
       collectors[id].Visits > Cardinality(collectors[id].Visitors)

\* GetShortURLMetrics has returned
GotMetrics == mevent.op = "GetShortURLMetrics"

\* the state of the manager other than what its last step did
ManagerState ==
  << collectors, requestChan, stopChan, loop, tickerC, recording, panicked,
     short_url_metrics >>

C23_SnapshotInvariant ==
  /\ \A row \in BagToSet(short_url_metrics) :
       /\ 1 <= row.unique_visit_count
       /\ row.unique_visit_count <= row.visit_count
  /\ (GotMetrics /\ mevent.err = Nil) =>
       /\ 0 <= mevent.val.UniqueVisits
       /\ mevent.val.UniqueVisits <= mevent.val.Visits
       /\ mevent.val.ShortURLId = mevent.id
       /\ mevent.stored.found =>
            LET rows == SelectedRows(short_url_metrics, mevent.id, mevent.from,
                                     mevent.to)
            IN  /\ rows # {}
                /\ mevent.val.Visits =
                     SumColumn(short_url_metrics, rows, "visit_count")
                /\ mevent.val.UniqueVisits =
                     SumColumn(short_url_metrics, rows, "unique_visit_count")

\* a snapshot that sums the rows of two flushes, with fewer unique visits
\* than visits
C23_Witness ==
  /\ GotMetrics
  /\ mevent.err = Nil
  /\ mevent.stored.found
  /\ mevent.val.Visits = 3
  /\ mevent.val.UniqueVisits = 2

Triangular(o) ==
  LET half == DivMod64(o, 2)
  IN  IF half[2] = 0 THEN Mul64(half[1], Add64(o, U64(1)))
      ELSE Mul64(o, Add64(half[1], U64(1)))

\* v split in base 62, from acc = [q, ds]: ds the digits taken so far, the
\* least significant first, and q the quotient left; n digits are taken
RECURSIVE Base62From(_, _)
Base62From(acc, n) ==
  IF Len(acc.ds) = n THEN acc
  ELSE Base62From([ q |-> DivMod64(acc.q, base)[1],
                    ds |-> Append(acc.ds, DivMod64(acc.q, base)[2]) ], n)

\* the number whose digits are ds (least significant first) below those of
\* q, from acc = [v, n]: v the number of q and the n most significant of ds
RECURSIVE RecomposeFrom(_, _)
RecomposeFrom(acc, ds) ==
  IF acc.n = Len(ds) THEN acc.v
  ELSE RecomposeFrom(
         [ v |-> Add64(U64(ds[Len(ds) - acc.n]), Mul64(U64(base), acc.v)),
           n |-> acc.n + 1 ], ds)

Recompose(q, ds) == RecomposeFrom([ v |-> q, n |-> 0 ], ds)

\* the characters of the digits ds
RECURSIVE IdOfDigits(_)
IdOfDigits(ds) ==
  IF ds = << >> THEN "" ELSE charset[Head(ds) + 1] \o IdOfDigits(Tail(ds))

\* id is the 6 least significant base-62 digits of h + o * (o + 1) / 2
\* modulo 2^64, in the characters of charset
EncodesProbe(id, h, o) ==
  LET start == [ q |-> Add64(h, Triangular(o)), ds |-> << >> ]
      split == Base62From(start, shortURLIdLength)
  IN  /\ Len(split.ds) = shortURLIdLength
      /\ \A i \in 1..Len(split.ds) : split.ds[i] \in 0..(base - 1)
      /\ Recompose(split.q, split.ds) = start.q
      /\ id = IdOfDigits(split.ds)
      /\ Len(id) = shortURLIdLength

\* C25, as stated: for every hash value h and offset o the identifier is the
\* 6 least significant base-62 digits of (h + (o + o*o) div 2) mod 2^64, least
\* significant first, in the alphabet 0-9a-zA-Z.
C25_Original ==
  codec.id # "" => EncodesProbe(codec.id, codec.hashValue, codec.offset)

\* C25 for the offsets below 2^32 only, whose o + o*o is below 2^64
C25_BelowOverflow ==
  (codec.id # "" /\ SubSeq(codec.offset, 5, 8) = << 0, 0, 0, 0 >>)
    => EncodesProbe(codec.id, codec.hashValue, codec.offset)

\* C26, as stated: a creation that fails with ErrInvalidLongURL is answered
\* with a 4xx status, a redirect that fails with ErrShortURLNotFound with 404,
\* and every other failed call with 500.
C26_Original ==
  (event.op \in { "CreateShortURL", "GetLongURL" } /\ event.err # Nil) =>
    IF event.op = "CreateShortURL" /\ ErrorsIs(event.err, ErrInvalid)
    THEN event.status \in 400..499
    ELSE IF event.op = "GetLongURL" /\ ErrorsIs(event.err, ErrNotFound)
    THEN event.status = StatusNotFound
    ELSE event.status = StatusInternalServerError

\* C26 without its first part
C26_NotFoundAndOthers ==
  (event.op \in { "CreateShortURL", "GetLongURL" } /\ event.err # Nil) =>
    IF event.op = "GetLongURL" /\ ErrorsIs(event.err, ErrNotFound)
    THEN event.status = StatusNotFound
    ELSE event.status = StatusInternalServerError

\* C27: a CreateShortURL whose Storage lookup failed has made no call after
\* it (no further lookup, no insert) and returns the empty id and an error
\* wrapping the Storage's; one whose Storage insert failed returns the empty
\* id and an error wrapping the Storage's; the returning step leaves
\* short_urls as it is in both cases; and no CreateShortURL makes a Cache
\* call, changes the cache or spawns a goroutine.
C27_StoreFailuresInCreation ==
  [][ event'.op = "CreateShortURL" =>
        LET cs == event'.calls
        IN  /\ \A k \in 1..Len(cs) :
                 /\ IsLookup(cs[k]) \/ IsInsert(cs[k])
                 /\ (IsLookup(cs[k]) /\ cs[k].out.err # Nil) =>
                      /\ k = Len(cs)
                      /\ event'.val = ""
                      /\ event'.err =
                           Wrap("error checking existing short URL",
                                cs[k].out.err)
                      /\ ErrorsIs(event'.err, cs[k].out.err)
                      /\ short_urls' = short_urls
                 /\ (IsInsert(cs[k]) /\ cs[k].out.err # Nil) =>
                      /\ event'.val = ""
                      /\ event'.err =
                           Wrap("failed to create short URL in storage",
                                cs[k].out.err)
                      /\ ErrorsIs(event'.err, cs[k].out.err)
                      /\ short_urls' = short_urls
            /\ cacheEntries' = cacheEntries
            /\ fills' = fills
    ]_vars

\* a CreateShortURL has failed on its first Storage lookup, offsets left to
\* probe, while the cache holds an entry
C27_Witness ==
  /\ Created
  /\ Len(event.calls) = 1
  /\ IsLookup(event.calls[1])
  /\ event.calls[1].out.err = ErrDriver
  /\ LoopContinues(0)
  /\ event.val = ""
  /\ cacheEntries # << >>

\* the visits of id in the collectors cs
VisitsIn(cs, id) == IF id \in DOMAIN cs THEN cs[id].Visits ELSE 0

\* C28: a Request taken from the channel adds exactly 1 to the visits of its
\* id in collectors and to no other; a flush submits, per id, as many visits
\* as Requests of the id were taken from the channel since the previous flush,
\* and leaves none of them for a later flush; so the visits submitted so far
\* are the Requests taken from the channel before the last flush, all of them
\* once the goroutine has returned, and never more than the
\* RecordShortURLRequest calls made.
C28_CountedOnce ==
  /\ [](tally.submitted + BagCardinality(window) = tally.processed)
  /\ [](loop = "exited" => tally.submitted = tally.processed)
  /\ [](tally.submitted <= tally.records)
  /\ [][ mevent'.op = "processRequest" =>
           /\ window' = window (+) SetToBag({ mevent'.request })
           /\ \A id \in VisitedShortURLIds :
                VisitsIn(collectors', id) =
                  VisitsIn(collectors, id)
                    + (IF id = mevent'.request.ShortURLId THEN 1 ELSE 0)
       ]_vars
  /\ [][ mevent'.op = "flushMetrics" =>
           /\ \A id \in VisitedShortURLIds :
                VisitsIn(mevent'.metrics, id) =
                  BagCardinality(RequestsFor(window, id))
           /\ tally'.submitted = tally.submitted + BagCardinality(window)
           /\ window' = EmptyBag
           /\ collectors' = << >>
       ]_vars

\* the goroutine has returned after its second submission of visits, one
\* RecordShortURLRequest call not having had its Request taken from the
\* channel
C28_Witness ==
  /\ loop = "exited"
  /\ Flushed
  /\ mevent.terminal
  /\ VisitsOf(mevent.metrics) >= 1
  /\ tally.submitted > VisitsOf(mevent.metrics)
  /\ tally.records > tally.processed

\* C29, as stated: once the goroutine of Start has returned, every Request
\* that was enqueued before stopChan was closed has been submitted to the
\* Store.  (The channel is first in, first out: the Requests enqueued before
\* the close are the first tally.enqueuedBeforeStop to be processed.)
C29_Original ==
  loop = "exited" => tally.submitted >= tally.enqueuedBeforeStop

\* C30: while the goroutine of Start runs and nothing stops it, the n-th
\* Request enqueued is eventually taken from the channel and eventually
\* submitted to the Store in a flush, and a RecordShortURLRequest call that
\* finds the channel full eventually returns, having enqueued its Request or
\* on its timeout.
C30_AggregationLiveness ==
  /\ \A n \in 1..MaxRecords :
       (loop = "select" /\ tally.enqueued >= n) ~> (tally.processed >= n)
  /\ \A n \in 1..MaxRecords :
       (loop = "select" /\ tally.enqueued >= n) ~> (tally.submitted >= n)
  /\ \A w \in AllRecording :
       (BagIn(w, recording) /\ Len(requestChan) = RequestChannelSize)
         ~> ( /\ Recorded
              /\ mevent.request = w.request
              /\ mevent.outcome \in { "enqueued", "timeout" } )

\* a call that found the channel full has returned on its timeout, after a
\* flush submitted a Request and while another Request is in the channel
C30_Witness ==
  /\ loop = "select"
  /\ stopChan = "open"
  /\ tally.submitted >= 1
  /\ Len(requestChan) = RequestChannelSize
  /\ Recorded
  /\ mevent.outcome = "timeout"


\* C31: every tick taken from ticker.C is a flush: the goroutine of Start
\* calls CreateMetrics with the collectors as they are, empty or not, then
\* clears them and is back at its select; and while nothing stops the
\* goroutine, a tick on ticker.C is eventually taken.
C31_EveryTickSubmits ==
  /\ [][ (tickerC /\ ~tickerC') =>
           /\ mevent'.op = "flushMetrics"
           /\ ~mevent'.terminal
           /\ mevent'.metrics = collectors
           /\ collectors' = << >>
           /\ loop' = "select"
       ]_vars
  /\ tickerC ~> (~tickerC /\ Flushed /\ ~mevent.terminal)

\* a tick has submitted the empty map, after a tick that submitted a visit
C31_Witness ==
  /\ Flushed
  /\ ~mevent.terminal
  /\ mevent.metrics = << >>
  /\ tally.submitted >= 1
  /\ collectors = << >>


\* event is the handler of a redirect request answering
Redirected == Got /\ event.visitor # ""

\* C32: the handler of a redirect whose GetLongURL returned no error has
\* called RecordShortURLRequestAsync once, with the id and the visitor of the
\* request, after the lookup, and has answered with the goroutine of that
\* call at its select, nothing enqueued by the step; the handler of a redirect
\* whose GetLongURL returned an error has not called it; and a call is at a
\* select of RecordShortURLRequest only by such a step.  (A step in which a
\* handler answers sets event; when it sets it to what it was, the step has
\* recorded a visit or changed nothing.)
C32_RecordedOnSuccessOnly ==
  [][ /\ (/\ event'.op = "GetLongURL"
          /\ event'.visitor # ""
          /\ (event' # event \/ tally'.records # tally.records)) =>
           LET w == [ request |-> [ ShortURLId |-> event'.arg,
                                    VisitorId |-> event'.visitor ],
                      afterExit |-> loop = "exited" ]
           IN  /\ Len(event'.calls) >= 1
               /\ pc'[event'.proc] = "idle"
               /\ requestChan' = requestChan
               /\ collectors' = collectors
               /\ IF event'.err = Nil
                  THEN /\ event'.recorded = << w.request >>
                       /\ recording' = recording (+) SetToBag({ w })
                       /\ tally'.records = tally.records + 1
                  ELSE /\ event'.recorded = << >>
                       /\ recording' = recording
                       /\ tally'.records = tally.records
      /\ BagCardinality(recording') > BagCardinality(recording) =>
           /\ event'.op = "GetLongURL"
           /\ event'.visitor # ""
           /\ event'.err = Nil
    ]_vars

\* a redirect served from the Store has recorded its visit, after a redirect
\* of the same id that failed and recorded none: one call is at its select
C32_Witness ==
  /\ Redirected
  /\ event.err = Nil
  /\ Lookups(event.calls) # << >>
  /\ tally.records = 1
  /\ BagCardinality(recording) = 1
  /\ requestChan = << >>
  /\ tally.enqueued = 0


\* C33: a GetLongURL whose cache lookup found nothing and whose Store lookup
\* found no row returns ErrShortURLNotFound; one whose Store lookup returned
\* an error returns an error wrapping it; neither has spawned a goroutine,
\* and the step in which either returns leaves the cache and the pending
\* goroutines as they were; and no step of a GetLongURL changes the Store.
C33_FailedLookupsFillNothing ==
  [][ /\ (event'.op = "GetLongURL" /\ Lookups(event'.calls) # << >>) =>
           LET r == Lookups(event'.calls)[1].out
           IN  /\ ~event'.calls[1].out.found
               /\ (r.err = Nil /\ ~r.found) =>
                    /\ event'.err = ErrNotFound
                    /\ event'.val = ""
               /\ r.err # Nil =>
                    /\ ErrorsIs(event'.err, r.err)
                    /\ event'.err # r.err
                    /\ ~ErrorsIs(event'.err, ErrNotFound)
                    /\ event'.val = ""
               /\ (r.err # Nil \/ ~r.found) =>
                    /\ Spawns(event'.calls) = << >>
                    /\ Len(event'.calls) = 2
                    /\ fills' = fills
                    /\ cacheEntries' = cacheEntries
      /\ (\E p \in Procs : pc'[p] = "GetLongURL:storage"
                             /\ pc[p] # "GetLongURL:storage") =>
           /\ short_urls' = short_urls
           /\ fills' = fills
           /\ cacheEntries' = cacheEntries
      /\ event'.op = "GetLongURL" => short_urls' = short_urls
    ]_vars

\* a GetLongURL of an id that has a row has failed on the Store's error,
\* after the cache's: no goroutine is pending and the cache is empty
C33_Witness ==
  /\ Got
  /\ event.calls[1].out.err = ErrRedis
  /\ Lookups(event.calls) # << >>
  /\ Lookups(event.calls)[1].out.err = ErrDriver
  /\ event.err = Wrap("failed to get long URL from storage", ErrDriver)
  /\ event.arg \in DOMAIN short_urls
  /\ fills = EmptyBag
  /\ cacheEntries = << >>


\* the pairs << id, long URL >> of the cache entries
Cached ==
  { << id, cacheEntries[Namespace(id)].value >> :
      id \in { k \in ShortURLIds : Namespace(k) \in DOMAIN cacheEntries } }

\* C34: every cache entry, and every value a pending goroutine is to set, is
\* a long URL that short_urls holds for the id or has held for it; the cache
\* changes only when a goroutine of GetLongURL sets the value it was spawned
\* with, when a DeleteShortURL deletes its id, and when a key expires; no
\* step of a CreateShortURL changes the cache or spawns a goroutine.
C34_CacheComesFromStore ==
  /\ [](/\ DOMAIN cacheEntries \subseteq { Namespace(id) : id \in ShortURLIds }
        /\ Cached \subseteq mapped \cup Rows(short_urls)
        /\ \A f \in PendingFills :
             << f.key, f.value >> \in mapped \cup Rows(short_urls))
  /\ [][ /\ cacheEntries' # cacheEntries =>
             \/ /\ event'.op = "go cache.Set"
                /\ \E f \in PendingFills :
                     /\ f.key = event'.arg
                     /\ fills' = fills (-) SetToBag({ f })
                     /\ cacheEntries' =
                          CacheSet(cacheEntries, f.key, f.value, f.ttl, Nil).entries
             \/ /\ event'.op = "DeleteShortURL"
                /\ IsCacheDelete(event'.calls[Len(event'.calls)])
                /\ cacheEntries' =
                     CacheDelete(cacheEntries, event'.arg, Nil).entries
             \/ /\ event' = NoEvent
                /\ \E k \in DOMAIN cacheEntries :
                     /\ cacheEntries[k].ttl > 0
                     /\ cacheEntries' =
                          [ j \in DOMAIN cacheEntries \ { k } |-> cacheEntries[j] ]
         /\ (\/ event'.op = "CreateShortURL"
             \/ \E p \in Procs :
                  pc'[p] \in { "CreateShortURL:lookup", "CreateShortURL:insert" }
                    /\ (pc'[p] # pc[p] \/ loopOffset'[p] # loopOffset[p])) =>
             /\ cacheEntries' = cacheEntries
             /\ fills' = fills
       ]_vars

\* the cache holds for an id the long URL of a row that was deleted, while
\* short_urls holds another long URL for the id
C34_Witness ==
  \E pair \in Cached :
    /\ pair[1] \in DOMAIN short_urls
    /\ short_urls[pair[1]] # pair[2]
    /\ pair \in mapped


\* C35, as stated: while the calls run one at a time, no two rows of
\* short_urls hold the same long URL, and a CreateShortURL(u) that succeeds
\* returns the id every earlier successful CreateShortURL(u) returned whose
\* row has not been deleted since.
C35_Original ==
  /\ \A id1 \in DOMAIN short_urls, id2 \in DOMAIN short_urls :
       short_urls[id1] = short_urls[id2] => id1 = id2
  /\ (Created /\ event.err = Nil) =>
       \A id \in ShortURLIds : live[id] = event.arg => id = event.val


\* C36: a CreateShortURL(u) that returns id with no error returns in the step
\* of its last Store call, which is a lookup of id that found u in the row of
\* id, the Store left as it was, or an insert of (id, u) that the Store ran,
\* id having had no row; and no step changes the long URL of a row: a step
\* adds rows, or removes rows, and leaves every other row as it was.
C36_TruthfulCreation ==
  [][ /\ (event'.op = "CreateShortURL" /\ event'.err = Nil) =>
           LET c == event'.calls[Len(event'.calls)]
           IN  /\ event'.calls # << >>
               /\ c.key = event'.val
               /\ \/ /\ IsLookup(c)
                     /\ c.out.found
                     /\ c.out.longURL = event'.arg
                     /\ event'.val \in DOMAIN short_urls
                     /\ short_urls[event'.val] = event'.arg
                     /\ short_urls' = short_urls
                  \/ /\ IsInsert(c)
                     /\ c.out.err = Nil
                     /\ event'.val \notin DOMAIN short_urls
                     /\ short_urls' = (event'.val :> event'.arg) @@ short_urls
      /\ \A id \in DOMAIN short_urls \cap DOMAIN short_urls' :
           short_urls'[id] = short_urls[id]
    ]_vars

\* a CreateShortURL has returned the id it inserted while the other caller's
\* CreateShortURL of another long URL, which saw the id free, is about to
\* insert the same id
C36_Witness ==
  /\ Created
  /\ event.err = Nil
  /\ IsInsert(event.calls[Len(event.calls)])
  /\ \E p \in Procs :
       /\ pc[p] = "CreateShortURL:insert"
       /\ arg[p] # event.arg
       /\ IdTable[arg[p]][loopOffset[p]] = event.val
  /\ short_urls[event.val] = event.arg


\* the cache holds an entry for id while short_urls has no row for it
Stale(id) ==
  Namespace(id) \in DOMAIN cacheEntries /\ id \notin DOMAIN short_urls

\* id has no row, no cache entry and no goroutine that is to set one
Gone(id) ==
  /\ id \notin DOMAIN short_urls
  /\ Namespace(id) \notin DOMAIN cacheEntries
  /\ \A f \in PendingFills : f.key # id

\* C37, as stated: no Set of GetLongURL refreshes the cache entry of an id
\* whose row has been deleted.
C37_Original ==
  [][ \A id \in ReadIds :
        ~(/\ Stale(id)
          /\ short_urls' = short_urls
          /\ event'.op = "go cache.Set"
          /\ event'.arg = id
          /\ event'.err = Nil
          /\ Namespace(id) \in DOMAIN cacheEntries')
    ]_vars

\* C37, amended: a GetLongURL spawns its goroutine only in the step in which
\* it has read the row of its id from the Store, never on a cache hit and
\* never for an id that has no row; the goroutines spawned before a deletion
\* may still set the entry after it, once each; an entry of an id that has no
\* row eventually disappears, or the id is created again; once the id has no
\* row, no entry and no pending goroutine it has none until it is created
\* again, and a GetLongURL of it that returns then, none of its calls
\* failing, returns ErrShortURLNotFound.
C37_StalenessEnds ==
  /\ [][ /\ BagCardinality(fills') > BagCardinality(fills) =>
             /\ event'.op = "GetLongURL"
             /\ event'.arg \in DOMAIN short_urls
             /\ ~event'.calls[1].out.found
             /\ fills' = fills (+) SetToBag({ CacheFill(event'.proc, event'.arg,
                                                        short_urls[event'.arg]) })
         /\ (event'.op = "GetLongURL" /\ event'.calls[1].out.found) =>
             /\ fills' = fills
             /\ cacheEntries' = cacheEntries
         /\ \A id \in ReadIds :
              (Gone(id) /\ id \notin DOMAIN short_urls') =>
                /\ Namespace(id) \notin DOMAIN cacheEntries'
                /\ \A f \in BagToSet(fills') : f.key # id
                /\ (event'.op = "GetLongURL" /\ event'.arg = id
                      /\ NoCallError(event'.calls)) =>
                     event'.err = ErrNotFound /\ event'.val = ""
       ]_vars
  /\ \A id \in ReadIds : Stale(id) ~> ~Stale(id)

\* a goroutine spawned before the deletion of its id has set the entry of the
\* id after it: the entry is there, the row is not, and nothing is pending
C37_Witness ==
  /\ FillRan
  /\ event.err = Nil
  /\ Stale(event.arg)
  /\ event.arg \in deleted
  /\ fills = EmptyBag


\* C38: the identifiers GenerateIdWithOffset makes of one hash value at the
\* offsets below the default MaxShortURLIdRetries are pairwise different,
\* whether or not adding the probe takes the hash value past 2^64.
C38_CandidatesDistinct ==
  \A i \in 1..Len(candidates.ids), j \in 1..Len(candidates.ids) :
    i # j => candidates.ids[i] # candidates.ids[j]

\* the ten candidates of 2^64 - 3 have been made: the probe takes it past
\* 2^64 from offset 2 on
C38_Witness ==
  /\ candidates.hashValue = << 253, 255, 255, 255, 255, 255, 255, 255 >>
  /\ Len(candidates.ids) = DefaultMaxShortURLIdRetries
  /\ candidates.ids[1] = IdOfHash(candidates.hashValue, U64(0))
  /\ candidates.ids[3] = IdOfHash(U64(0), U64(0))

====
